---- MODULE Spec2Model ----
(***************************************************************************)
(* Model of the smart-contract auditor:                                    *)
(*   Spec         the primary analyzer, contractAnalyzerTool.execute /     *)
(*                analyzeContract (contract-analyzer-tool.ts), and         *)
(*                validateAndSanitizeInput (utils/input-validation)        *)
(*   SpecPair     two concurrent calls of the primary analyzer             *)
(*   SpecReport   generateComprehensiveReport (audit-report-generator)     *)
(*   SpecVerify   performFormalVerification (formal-verification-tool)     *)
(*   SpecLimiter  RateLimiter (utils/input-validation)                     *)
(*                                                                         *)
(* A contract text is a sequence of lines, a line a sequence of lexemes.   *)
(* Each lexeme stands for a fixed piece of source text and has that        *)
(* piece's width in characters, so character counts and regex match        *)
(* positions (lastIndex) are those of the text the lexemes spell:          *)
(*   "call" .call(        "send" .send(         "txo" tx.origin            *)
(*   "sd"   selfdestruct( "now"  now            "ctr" contract A           *)
(*   "p07"  pragma solidity ^0.7.0;   "p08" pragma solidity ^0.8.0;        *)
(*   "bal"  balances[msg.sender] = 0  "eq"  =   "req" require              *)
(*   "ar"   +             "sm"   SafeMath       "ws"  one blank            *)
(*   "lt"   <             "gt"   >              "x"   one other character  *)
(*   "pub"  public        "view" view           "u256" uint256             *)
(*   "X"    a run of `fill` other characters (fill is part of the text)    *)
(*   "oo"   onlyOwner     "rmo"  require(msg.sender == owner)              *)
(*   "nr"   nonReentrant  "to"   transferOwnership(                        *)
(*   "map"  mapping(      "wd"   withdraw                                  *)
(***************************************************************************)
EXTENDS Integers, Sequences, FiniteSets, TLC

VARIABLES
    code,        \* the contract text handed to the entry point
    entry,       \* entry point of the current call: "none", "tool", "validate"
    pc,          \* position of the current call
    calls,       \* number of calls started
    clock,       \* Date.now()
    startTime,   \* execute: const startTime
    pipelineMs,  \* wall-clock time the synchronous analyzeContract run took
    lastIndex,   \* lastIndex of the /g patterns of securityChecks (last call)
    issues,      \* analyzeContract: the local issues array when the call ended
    analysis,    \* the promise analyzeContract returned (settled on return)
    race,        \* state of the Promise.race promise awaited by execute
    microtasks,  \* pending promise reaction jobs, in order
    timers,      \* armed setTimeout timers: [call, deadline]
    outcome,     \* what the current call gave its caller
    results,     \* outcomes of the tool calls completed so far, in order
    analysisResults,       \* report generator input: the analyzer's result
    vulnerabilityResults,  \* report generator input: the vulnerability check's
    gasResults,            \* report generator input: the gas analysis's
    report,      \* what generateComprehensiveReport gave its caller
    contractCode,      \* performFormalVerification: the text, as lines
    customProperties,  \* performFormalVerification: the caller's properties
    method,            \* performFormalVerification: verificationMethod
    timeout,           \* performFormalVerification: timeout, in seconds
    properties,        \* the FormalProperty list shared by the passes
    vpc,               \* position of performFormalVerification
    vStartTime,        \* performFormalVerification: const startTime
    vClock,            \* Date.now() of the verification run
    passes,            \* the passes run so far, in order
    verification,      \* the result performFormalVerification returned
    inflight,    \* two concurrent tool calls: each one's text, position,
                 \* promises, timer and outcome
    jobs,        \* pending promise reaction jobs of the two calls, in order
    requests,    \* RateLimiter.requests: identifier -> timestamps
    limiterClock,  \* Date.now() seen by the rate limiter
    granted,     \* per identifier, the times of the calls that returned true
    lastAnswer,  \* the latest isAllowed call: identifier, time, result
    staticCode,           \* performAdvancedStaticAnalysis: the text, as lines
    enableTaintAnalysis,  \* performAdvancedStaticAnalysis: enableTaintAnalysis
    staticAnalysis,       \* the result performAdvancedStaticAnalysis returned
    staticDone,           \* performAdvancedStaticAnalysis has been called
    anomalyCode,          \* detectAnomalies: the text, as lines
    sensitivityLevel,     \* detectAnomalies: sensitivityLevel
    enableBehavioralAnalysis,     \* detectAnomalies: enableBehavioralAnalysis
    enableNovelPatternDetection,  \* detectAnomalies: enableNovelPatternDetection
    anomalyResult,        \* the result detectAnomalies returned
    anomalyDone           \* detectAnomalies has been called

analyzerVars ==
    <<code, entry, pc, calls, clock, startTime, pipelineMs, lastIndex,
      issues, analysis, race, microtasks, timers, outcome, results>>

reportVars == <<analysisResults, vulnerabilityResults, gasResults, report>>

verifyVars ==
    <<contractCode, customProperties, method, timeout, properties, vpc,
      vStartTime, vClock, passes, verification>>

pairVars == <<inflight, jobs>>

limiterVars == <<requests, limiterClock, granted, lastAnswer>>

staticVars == <<staticCode, enableTaintAnalysis, staticAnalysis, staticDone>>

anomalyVars ==
    <<anomalyCode, sensitivityLevel, enableBehavioralAnalysis,
      enableNovelPatternDetection, anomalyResult, anomalyDone>>

\* The state of the advanced analyzers.
advancedVars == <<staticVars, anomalyVars>>

\* The state outside the primary analyzer.
otherVars == <<reportVars, verifyVars, pairVars, limiterVars, advancedVars>>

\* The state outside the report generator, the verification, the rate limiter.
outsideReport == <<analyzerVars, verifyVars, pairVars, limiterVars, advancedVars>>
outsideVerify == <<analyzerVars, reportVars, pairVars, limiterVars, advancedVars>>
outsideLimiter == <<analyzerVars, reportVars, verifyVars, pairVars, advancedVars>>
outsideStatic ==
    <<analyzerVars, reportVars, verifyVars, pairVars, limiterVars, anomalyVars>>
outsideAnomaly ==
    <<analyzerVars, reportVars, verifyVars, pairVars, limiterVars, staticVars>>

vars == <<analyzerVars, otherVars>>

-----------------------------------------------------------------------------
(* Bounds *)

MaxLines == 4
MaxCalls == 2
SlowAnalysisMs == 45000
ManyLines == 101
MaxFindings == 4
MaxVulnerabilities == 2
MaxOptimizations == 1
MaxVerifyLines == 2
MaxCustom == 1
PassMs == 500
MaxPairLines == 2
maxRequests == 2
windowMs == 3
MaxTime == 5
MaxStaticLines == 3
ManyFunctions == 4
ManyBranches == 22
ManyCalls == 8
ManyAssignments == 15
ManyBraces == 3

-----------------------------------------------------------------------------
(* Program constants *)

MaxCodeLen == 50000
maxAnalysisTime == 30000
MaxScanLines == 100
MaxIssues == 20
MaxGasOptimizations == 5

-----------------------------------------------------------------------------
(* Texts *)

Width ==
    [call |-> 6, send |-> 6, txo |-> 9, sd |-> 13, now |-> 3, ctr |-> 10,
     p07 |-> 23, p08 |-> 23, bal |-> 24, eq |-> 1, req |-> 7, ar |-> 1,
     sm |-> 8, ws |-> 1, lt |-> 1, gt |-> 1, x |-> 1, pub |-> 6, view |-> 4,
     u256 |-> 7, nl |-> 1, oo |-> 9, rmo |-> 28, nr |-> 12, to |-> 18,
     map |-> 8, wd |-> 8]

TokLen(tok, fill) == IF tok = "X" THEN fill ELSE Width[tok]

\* The operators over whole texts recurse on halves, so that the depth of
\* the recursion stays small on long texts.

\* Number of characters of s: the sum of the widths of its lexemes.
RECURSIVE SeqLen(_, _)
SeqLen(s, fill) ==
    IF s = <<>> THEN 0
    ELSE IF Len(s) = 1 THEN TokLen(s[1], fill)
    ELSE LET h == Len(s) \div 2
         IN SeqLen(SubSeq(s, 1, h), fill) + SeqLen(SubSeq(s, h + 1, Len(s)), fill)

\* lines.join("\n")
RECURSIVE Join(_)
Join(lines) ==
    IF Len(lines) = 0 THEN <<>>
    ELSE IF Len(lines) = 1 THEN lines[1]
    ELSE LET h == Len(lines) \div 2
         IN Join(SubSeq(lines, 1, h)) \o <<"nl">>
            \o Join(SubSeq(lines, h + 1, Len(lines)))

\* s.split("\n"): the lines before and after the middle newline.
RECURSIVE Split(_)
Split(s) ==
    LET nls == {i \in 1..Len(s) : s[i] = "nl"}
    IN IF nls = {} THEN <<s>>
       ELSE LET m == CHOOSE p \in nls :
                         Cardinality({q \in nls : q < p}) = Cardinality(nls) \div 2
            IN Split(SubSeq(s, 1, m - 1)) \o Split(SubSeq(s, m + 1, Len(s)))

RawChars(text) == Join(text.lines)
RawLen(text) == SeqLen(RawChars(text), text.fill)

Has(s, toks) == \E i \in 1..Len(s) : s[i] \in toks

IsSpace(tok) == tok \in {"ws", "nl"}

\* String.prototype.trim
RECURSIVE TrimLeft(_)
TrimLeft(s) ==
    IF s # <<>> /\ IsSpace(Head(s)) THEN TrimLeft(Tail(s)) ELSE s

RECURSIVE TrimRight(_)
TrimRight(s) ==
    IF s # <<>> /\ IsSpace(s[Len(s)])
    THEN TrimRight(SubSeq(s, 1, Len(s) - 1))
    ELSE s

Trim(s) == TrimRight(TrimLeft(s))

\* .replace(/<[^>]*>/g, ""): from the leftmost "<" that has a ">" after it,
\* through the first ">" after it, newlines included; then on from there.
RECURSIVE StripTags(_)
StripTags(s) ==
    IF \E i \in 1..Len(s) : s[i] = "lt" /\ \E j \in (i + 1)..Len(s) : s[j] = "gt"
    THEN LET i == CHOOSE k \in 1..Len(s) :
                      s[k] = "lt" /\ \A m \in 1..(k - 1) : s[m] # "lt"
             j == CHOOSE k \in (i + 1)..Len(s) :
                      s[k] = "gt" /\ \A m \in (i + 1)..(k - 1) : s[m] # "gt"
         IN SubSeq(s, 1, i - 1) \o StripTags(SubSeq(s, j + 1, Len(s)))
    ELSE s

\* The three replaces and the trim of analyzeContract and sanitizeContractCode.
\* No lexeme spells "<!--" or "<script", so the first two replaces remove
\* nothing that the third does not remove.
sanitizeContractCode(s) == Trim(StripTags(s))

-----------------------------------------------------------------------------
(* Regular expressions *)

Min(S) == CHOOSE m \in S : \A n \in S : m <= n

\* Character offset at which lexeme k of the line starts.
StartOf(line, k, fill) == SeqLen(SubSeq(line, 1, k - 1), fill)

\* RegExp.prototype.test of a /g pattern: the search starts at lastIndex; a
\* match leaves lastIndex at the end of the match, a failure resets it to 0.
RegexTestG(line, pattern, li, fill) ==
    LET cand == {k \in 1..Len(line) :
                     line[k] \in pattern /\ StartOf(line, k, fill) >= li}
    IN IF cand = {}
       THEN [found |-> FALSE, lastIndex |-> 0]
       ELSE LET k == Min(cand)
            IN [found |-> TRUE,
                lastIndex |-> StartOf(line, k, fill) + TokLen(line[k], fill)]

-----------------------------------------------------------------------------
(* analyzeContract *)

\* Variant: the timestamp and pragma rules rated Low.
securityChecks_lowRated ==
    << [pattern |-> {"call"}, type |-> "Low-level call", severity |-> "High"],
       [pattern |-> {"txo"}, type |-> "tx.origin usage", severity |-> "Critical"],
       [pattern |-> {"sd"}, type |-> "Self-destruct", severity |-> "High"],
       [pattern |-> {"now"}, type |-> "Timestamp dependency", severity |-> "Low"],
       [pattern |-> {"p07", "p08"}, type |-> "Outdated Solidity version",
        severity |-> "Low"] >>

\* const securityChecks = [...]: each pattern is the set of lexemes it matches.
securityChecks ==
    << [pattern |-> {"call"}, type |-> "Low-level call", severity |-> "High"],
       [pattern |-> {"txo"}, type |-> "tx.origin usage", severity |-> "Critical"],
       [pattern |-> {"sd"}, type |-> "Self-destruct", severity |-> "High"],
       [pattern |-> {"now"}, type |-> "Timestamp dependency", severity |-> "Medium"],
       [pattern |-> {"p07", "p08"}, type |-> "Outdated Solidity version",
        severity |-> "Medium"] >>

Rules == DOMAIN securityChecks

\* Variant: securityChecks hoisted to module scope, its patterns (and their
\* lastIndex) shared by all calls.
FreshPatterns_hoisted(previous) == previous

\* The regex literals of securityChecks are evaluated anew by every call of
\* analyzeContract, so whatever lastIndex the previous call left is dropped.

FreshPatterns(previous) == [r \in Rules |-> 0]

ExternalCallToks == {"call", "send"}     \* /\.call\(|\.send\(|\.transfer\(/
AssignToks == {"eq", "bal"}              \* /=/
GuardToks == {"req"}                     \* "require", "assert"
PragmaToks == {"p07", "p08"}             \* /pragma\s+solidity/
ContractToks == {"ctr"}                  \* /contract\s+\w+/
ArithmeticToks == {"ar"}                 \* /[\+\-\*\/]/
SafeMathToks == {"sm"}                   \* /SafeMath/

\* Ten times the value parseFloat gives the captured MAJOR.MINOR.
ParseFloat10 == [p07 |-> 7, p08 |-> 8]

NoVersion == -1

\* sanitizedCode.match(/pragma\s+solidity\s+\^?([0-9]+\.[0-9]+)/)?.[1]
solidityVersion(s) ==
    IF Has(s, PragmaToks)
    THEN LET k == Min({i \in 1..Len(s) : s[i] \in PragmaToks})
         IN ParseFloat10[s[k]]
    ELSE NoVersion

\* The loop from line i on, entered with the flag hasExternalCall: it ends
\* with hasStateChange set iff at some line k the flag is set (before the
\* loop, or by a line from i through k) and line k has "=" and no guard.
ReentrancyLoop(lines, i, hasExternalCall) ==
    \E k \in i..Len(lines) :
        /\ hasExternalCall \/ \E j \in i..k : Has(lines[j], ExternalCallToks)
        /\ Has(lines[k], AssignToks)
        /\ ~Has(lines[k], GuardToks)

checkReentrancyPattern(s) == ReentrancyLoop(Split(s), 1, FALSE)

\* for (const check of securityChecks) { if (check.pattern.test(line)) ... break }
RECURSIVE CheckLine(_, _, _, _)
CheckLine(line, r, li, fill) ==
    IF r > Len(securityChecks) THEN [hit |-> 0, lastIndex |-> li]
    ELSE LET t == RegexTestG(line, securityChecks[r].pattern, li[r], fill)
             li2 == [li EXCEPT ![r] = t.lastIndex]
         IN IF t.found THEN [hit |-> r, lastIndex |-> li2]
            ELSE CheckLine(line, r + 1, li2, fill)

\* Variant: the finding's line taken one past the 1-based line number.
RECURSIVE ScanLines_linePlusOne(_, _, _, _, _, _)
ScanLines_linePlusOne(lines, i, linesToCheck, li, found, fill) ==
    IF i > linesToCheck THEN [issues |-> found, lastIndex |-> li]
    ELSE IF i = linesToCheck
    THEN LET c == CheckLine(lines[i], 1, li, fill)
         IN [issues |-> IF c.hit = 0 THEN found
                        ELSE Append(found,
                                    [type |-> securityChecks[c.hit].type,
                                     severity |-> securityChecks[c.hit].severity,
                                     line |-> i + 1]),
             lastIndex |-> c.lastIndex]
    ELSE CHOOSE all \in
             {ScanLines_linePlusOne(lines, (i + linesToCheck) \div 2 + 1, linesToCheck,
                    first.lastIndex, first.issues, fill) :
                  first \in {ScanLines_linePlusOne(lines, i, (i + linesToCheck) \div 2,
                                   li, found, fill)}} : TRUE

\* for (let i = 0; i < linesToCheck; i++): lines i..linesToCheck (1-based),
\* entered with the patterns' lastIndex li and the issues found so far. A
\* range of several lines is scanned as its first half, then its second half
\* from what the first half left (a value, as the member of a singleton,
\* before the second half starts).
RECURSIVE ScanLines(_, _, _, _, _, _)
ScanLines(lines, i, linesToCheck, li, found, fill) ==
    IF i > linesToCheck THEN [issues |-> found, lastIndex |-> li]
    ELSE IF i = linesToCheck
    THEN LET c == CheckLine(lines[i], 1, li, fill)
         IN [issues |-> IF c.hit = 0 THEN found
                        ELSE Append(found,
                                    [type |-> securityChecks[c.hit].type,
                                     severity |-> securityChecks[c.hit].severity,
                                     line |-> i]),
             lastIndex |-> c.lastIndex]
    ELSE CHOOSE all \in
             {ScanLines(lines, (i + linesToCheck) \div 2 + 1, linesToCheck,
                    first.lastIndex, first.issues, fill) :
                  first \in {ScanLines(lines, i, (i + linesToCheck) \div 2,
                                   li, found, fill)}} : TRUE

CountSeverity(found, sev) ==
    Cardinality({k \in 1..Len(found) : found[k].severity = sev})

Max(a, b) == IF a >= b THEN a ELSE b

\* Variant: the penalty subtracted without Math.max(0, ...).
securityScore_unclamped(found) ==
    100 - (CountSeverity(found, "Critical") * 25 + CountSeverity(found, "High") * 15
           + CountSeverity(found, "Medium") * 8 + CountSeverity(found, "Low") * 3)

securityScore(found) ==
    Max(0, 100 - (CountSeverity(found, "Critical") * 25
                  + CountSeverity(found, "High") * 15
                  + CountSeverity(found, "Medium") * 8
                  + CountSeverity(found, "Low") * 3))

\* Variant: the issue count tested before the Critical and High counts.
generateSummary_countFirst(contractName, score, totalIssues, critical, high) ==
    [contractName |-> contractName, score |-> score,
     riskLevel |-> IF totalIssues > 3 THEN "Medium"
                   ELSE IF critical > 0 THEN "Critical"
                   ELSE IF high > 0 THEN "High"
                   ELSE "Low",
     totalIssues |-> totalIssues, critical |-> critical, high |-> high,
     verdict |-> IF score >= 80 THEN "good"
                 ELSE IF score >= 60 THEN "needs improvements"
                 ELSE "immediate attention"]

generateSummary(contractName, score, totalIssues, critical, high) ==
    [contractName |-> contractName, score |-> score,
     riskLevel |-> IF critical > 0 THEN "Critical"
                   ELSE IF high > 0 THEN "High"
                   ELSE IF totalIssues > 3 THEN "Medium"
                   ELSE "Low",
     totalIssues |-> totalIssues, critical |-> critical, high |-> high,
     verdict |-> IF score >= 80 THEN "good"
                 ELSE IF score >= 60 THEN "needs improvements"
                 ELSE "immediate attention"]

Slice(s, n) == SubSeq(s, 1, IF Len(s) < n THEN Len(s) ELSE n)

NoName == ""
NoLine == 0

Error(message) == [kind |-> "Error", message |-> message]

\* The whole of analyzeContract: the promise it returns (settled, since the
\* body has no await), the local issues array and the patterns' lastIndex.
analyzeContract(text, contractName, previous) ==
    LET raw == RawChars(text)
        fill == text.fill
        sanitizedCode == sanitizeContractCode(raw)
        lines == Split(sanitizedCode)
        finalContractName ==
            IF contractName # NoName THEN contractName
            ELSE IF Has(sanitizedCode, ContractToks) THEN "A"
            ELSE "UnknownContract"
        hasPragma == Has(sanitizedCode, PragmaToks)
        hasContract == Has(sanitizedCode, ContractToks)
        hasExternalCalls == Has(sanitizedCode, ExternalCallToks)
        hasStateChangesAfterCalls == checkReentrancyPattern(sanitizedCode)
        reentrancy ==
            IF hasExternalCalls /\ hasStateChangesAfterCalls
            THEN <<[type |-> "Reentrancy vulnerability", severity |-> "Critical",
                    line |-> NoLine]>>
            ELSE <<>>
        version == solidityVersion(sanitizedCode)
        overflow ==
            IF version # NoVersion /\ version < 8
               /\ Has(sanitizedCode, ArithmeticToks)
               /\ ~Has(sanitizedCode, SafeMathToks)
            THEN <<[type |-> "Integer overflow/underflow", severity |-> "High",
                    line |-> NoLine]>>
            ELSE <<>>
        linesToCheck == IF Len(lines) < MaxScanLines THEN Len(lines) ELSE MaxScanLines
        scan == ScanLines(lines, 1, linesToCheck, FreshPatterns(previous),
                          reentrancy \o overflow, fill)
        found == scan.issues
        gasOptimizations ==
            (IF Has(sanitizedCode, {"pub"}) /\ Has(sanitizedCode, {"view"})
             THEN <<"external instead of public">> ELSE <<>>)
            \o (IF Has(sanitizedCode, {"u256"})
                THEN <<"smaller uint types">> ELSE <<>>)
        score == securityScore(found)
    IN  IF RawLen(text) = 0 \/ SeqLen(Trim(raw), fill) = 0
        THEN [state |-> "rejected",
              value |-> Error("Contract code cannot be empty"),
              issues |-> <<>>, lastIndex |-> previous]
        ELSE IF ~hasPragma /\ ~hasContract
        THEN [state |-> "rejected",
              value |-> Error("Input does not appear to be valid Solidity code"),
              issues |-> <<>>, lastIndex |-> previous]
        ELSE [state |-> "fulfilled",
              value |-> [contractName |-> finalContractName,
                         totalLines |-> Len(lines),
                         securityScore |-> score,
                         issues |-> Slice(found, MaxIssues),
                         gasOptimizations |-> Slice(gasOptimizations,
                                                    MaxGasOptimizations),
                         summary |-> generateSummary(
                                         finalContractName, score, Len(found),
                                         CountSeverity(found, "Critical"),
                                         CountSeverity(found, "High"))],
              issues |-> found, lastIndex |-> scan.lastIndex]

-----------------------------------------------------------------------------
(* Input validation *)

ZodError(message) == [kind |-> "ZodError", message |-> message]

NoError == [kind |-> "none", message |-> ""]

\* contractAnalyzerTool.inputSchema.contractCode: z.string().min(1).max(50000)
inputSchema(text) ==
    IF RawLen(text) < 1 THEN ZodError("Contract code cannot be empty")
    ELSE IF RawLen(text) > MaxCodeLen
    THEN ZodError("Contract code too large (max 50KB)")
    ELSE NoError

\* contractCodeSchema.parse(sanitized): min(1), max(50000), refine(marker)
contractCodeSchema(s, fill) ==
    IF SeqLen(s, fill) < 1 THEN ZodError("Contract code cannot be empty")
    ELSE IF SeqLen(s, fill) > MaxCodeLen
    THEN ZodError("Contract code too large (max 50KB)")
    ELSE IF ~(Has(s, PragmaToks) \/ Has(s, ContractToks))
    THEN ZodError("Input must be valid Solidity code")
    ELSE NoError

Returned(value) == [status |-> "returned", value |-> value, error |-> NoError]
Thrown(error) == [status |-> "thrown", value |-> <<>>, error |-> error]
NoOutcome == [status |-> "none", value |-> <<>>, error |-> NoError]

\* validateAndSanitizeInput({contractCode}) with contractName left out:
\* `if (input.contractCode)` skips the empty string.
validateAndSanitizeInput(text) ==
    IF RawLen(text) = 0 THEN Returned([hasCode |-> FALSE, contractCode |-> <<>>])
    ELSE LET sanitized == sanitizeContractCode(RawChars(text))
             verdict == contractCodeSchema(sanitized, text.fill)
         IN IF verdict # NoError THEN Thrown(verdict)
            ELSE Returned([hasCode |-> TRUE, contractCode |-> sanitized])

-----------------------------------------------------------------------------
(* execute *)

\* The rejection value of the timer promise.
TimeoutReason == Error("Analysis timeout - contract too complex")

\* catch (error) { throw new Error(`Analysis failed: ${error.message}`) }
executeCatch(error) == Error("Analysis failed: " \o error.message)

-----------------------------------------------------------------------------
(* Report generator: generateComprehensiveReport (audit-report-generator) *)

\* A pass output the caller does not have: the pass failed or was not run.
Absent == [absent |-> TRUE]

MaxRecommendations == 10

\* What analyzeContract returns for a contract in which it found `found`
\* (the aggregation at the end of analyzeContract).
AnalysisResult(found) ==
    [contractName |-> "A",
     securityScore |-> securityScore(found),
     issues |-> Slice(found, MaxIssues),
     gasOptimizations |-> <<>>,
     summary |-> generateSummary("A", securityScore(found), Len(found),
                                 CountSeverity(found, "Critical"),
                                 CountSeverity(found, "High"))]

NoVulnerabilities == [vulnerabilities |-> <<>>, recommendations |-> <<>>]
NoOptimizations == [optimizations |-> <<>>]

\* const allFindings = [...analysisResults.issues.map(..),
\*                      ...vulnerabilityResults.vulnerabilities.map(..)]
allFindings(a, v) ==
    [k \in 1..Len(a.issues) |->
        [severity |-> a.issues[k].severity, title |-> a.issues[k].type]]
    \o [k \in 1..Len(v.vulnerabilities) |->
          [severity |-> v.vulnerabilities[k].severity,
           title |-> v.vulnerabilities[k].name]]

\* const findings = { critical: ..., high: ..., medium: ..., low: ... }
findingCounts(all) ==
    [critical |-> CountSeverity(all, "Critical"),
     high |-> CountSeverity(all, "High"),
     medium |-> CountSeverity(all, "Medium"),
     low |-> CountSeverity(all, "Low")]

\* let riskLevel = "Low"; if (findings.critical > 0) ... else if ...
riskLevel(findings) ==
    IF findings.critical > 0 THEN "Critical"
    ELSE IF findings.high > 0 THEN "High"
    ELSE IF findings.medium > 2 THEN "Medium"
    ELSE "Low"

generateConclusion(score, risk, findings) ==
    IF score >= 85 /\ risk = "Low" THEN "ready for deployment"
    ELSE IF score >= 70 /\ risk \in {"Low", "Medium"} THEN "good fundamentals"
    ELSE IF findings.critical > 0 THEN "critical vulnerabilities"
    ELSE "significant improvements"

TypeError(message) == [kind |-> "TypeError", message |-> message]

\* generateComprehensiveReport(contractName, analysisResults,
\* vulnerabilityResults, gasResults). reportId and timestamp (Date.now,
\* Math.random) are left out of the report record. Reading a property of an
\* absent input throws at the first place the body reads it.
generateComprehensiveReport(contractName, a, v, g) ==
    IF a = Absent
    THEN Thrown(TypeError("Cannot read properties of undefined (reading 'issues')"))
    ELSE IF v = Absent
    THEN Thrown(TypeError(
             "Cannot read properties of undefined (reading 'vulnerabilities')"))
    ELSE IF g = Absent
    THEN Thrown(TypeError(
             "Cannot read properties of undefined (reading 'optimizations')"))
    ELSE LET all == allFindings(a, v)
             findings == findingCounts(all)
             risk == riskLevel(findings)
             recommendations ==
                 v.recommendations
                 \o [k \in 1..Len(g.optimizations) |->
                        g.optimizations[k].recommendation]
                 \o <<"unit tests", "formal verification", "monitoring">>
         IN Returned([contractName |-> contractName,
                      securityScore |-> a.securityScore,
                      riskLevel |-> risk,
                      findings |-> findings,
                      detailedFindings |-> all,
                      gasOptimizations |->
                          [k \in 1..Len(g.optimizations) |->
                              g.optimizations[k].type],
                      recommendations |->
                          Slice(recommendations, MaxRecommendations),
                      conclusion |->
                          generateConclusion(a.securityScore, risk, findings)])

-----------------------------------------------------------------------------
(* Formal verification: performFormalVerification (formal-verification-tool) *)

\* For each string the passes look for with includes(), the lexemes whose
\* text contains it.
OverflowOpToks == {"ar"}              \* "+", "*"
Pragma08Toks == {"p08"}               \* "pragma solidity ^0.8"
CallToks == {"call"}                  \* ".call("
NonReentrantToks == {"nr"}            \* "nonReentrant"
OnlyOwnerToks == {"oo"}               \* "onlyOwner"
SenderIsOwnerToks == {"rmo"}          \* "msg.sender == owner"
RequireOwnerToks == {"rmo"}           \* "require(msg.sender == owner)"
PrivilegedToks == {"sd", "to"}        \* "selfdestruct", "transferOwnership"
MappingToks == {"map"}                \* "mapping"
BalanceToks == {"bal"}                \* "balance"
OwnerToks == {"rmo"}                  \* "owner"
WithdrawToks == {"wd", "to"}          \* "withdraw", "transfer"

\* contractCode.includes(..) over the lines of the text
Includes(lines, toks) == \E i \in DOMAIN lines : Has(lines[i], toks)

\* A counterexample is a message, with the line number where it has one.
Counterexample(text, line) == [text |-> text, line |-> line]
NoCounterexample == Counterexample("", 0)

CustomIds == <<"CUSTOM_1", "CUSTOM_2", "CUSTOM_3">>
CustomNames == <<"Custom Property 1", "Custom Property 2", "Custom Property 3">>

\* A freshly extracted property: verified false, confidence 0.0.
\* Confidence is kept in hundredths.
FormalProperty(id, name, type) ==
    [id |-> id, name |-> name, type |-> type, verified |-> FALSE,
     confidence |-> 0, counterexample |-> NoCounterexample]

\* property.name.includes(part), for the names extractFormalProperties gives
NameIncludes(name, part) ==
    \/ part \in {"Overflow", "Integer Overflow"} /\ name = "No Integer Overflow"
    \/ part = "Reentrancy" /\ name = "No Reentrancy"
    \/ part = "Access Control" /\ name = "Access Control Integrity"
    \/ part = "Balance Non-Negative" /\ name = "Balance Non-Negative"

extractFormalProperties(lines, custom) ==
    << FormalProperty("SAFETY_001", "No Integer Overflow", "safety"),
       FormalProperty("SAFETY_002", "No Reentrancy", "safety"),
       FormalProperty("SAFETY_003", "Access Control Integrity", "safety") >>
    \o (IF Includes(lines, MappingToks) /\ Includes(lines, BalanceToks)
        THEN << FormalProperty("INV_001", "Balance Non-Negative", "invariant"),
                FormalProperty("INV_002", "Total Supply Conservation", "invariant") >>
        ELSE <<>>)
    \o (IF Includes(lines, OwnerToks)
        THEN << FormalProperty("INV_003", "Owner Non-Zero", "invariant") >>
        ELSE <<>>)
    \o (IF Includes(lines, WithdrawToks)
        THEN << FormalProperty("TEMP_001", "Eventually Withdrawable", "liveness") >>
        ELSE <<>>)
    \o [k \in 1..Len(custom) |->
          FormalProperty(CustomIds[k], CustomNames[k], "invariant")]

\* performModelChecking: the safetyViolations it collects
safetyViolations(lines) ==
    (IF Includes(lines, OverflowOpToks)
        /\ ~(Includes(lines, SafeMathToks) \/ Includes(lines, Pragma08Toks))
     THEN {"Potential integer overflow in arithmetic operations"} ELSE {})
    \cup (IF Includes(lines, CallToks) /\ ~Includes(lines, NonReentrantToks)
          THEN {"Potential reentrancy vulnerability detected"} ELSE {})
    \cup (IF Includes(lines, PrivilegedToks)
             /\ ~(Includes(lines, OnlyOwnerToks)
                  \/ Includes(lines, SenderIsOwnerToks))
          THEN {"Privileged functions without proper access control"} ELSE {})

\* performModelChecking: properties.forEach over the safety properties
performModelChecking(lines, props) ==
    LET violations == safetyViolations(lines)
        overflow == "Potential integer overflow in arithmetic operations"
                        \in violations
        reentrancy == "Potential reentrancy vulnerability detected" \in violations
    IN [k \in DOMAIN props |->
          IF props[k].type # "safety" THEN props[k]
          ELSE IF NameIncludes(props[k].name, "Overflow") /\ overflow
          THEN [props[k] EXCEPT
                    !.verified = FALSE,
                    !.counterexample = Counterexample(
                        "Arithmetic operation without overflow protection", 0)]
          ELSE IF NameIncludes(props[k].name, "Reentrancy") /\ reentrancy
          THEN [props[k] EXCEPT
                    !.verified = FALSE,
                    !.counterexample = Counterexample(
                        "External call followed by state change", 0)]
          ELSE [props[k] EXCEPT !.verified = TRUE, !.confidence = 85]]

\* Variant: symbolic execution finds no unchecked arithmetic operation.
overflowChecks_none(lines) == {}

\* performSymbolicExecution: the lines with an unchecked arithmetic operation
overflowChecks(lines) ==
    {i \in DOMAIN lines :
        /\ Has(lines[i], OverflowOpToks)
        /\ ~(Has(lines[i], SafeMathToks) \/ Includes(lines, Pragma08Toks))}

AuthWindow == 5

\* performSymbolicExecution: the lines with a privileged operation and no
\* authorization on the line or in the five lines before it
accessControlViolations(lines) ==
    {i \in DOMAIN lines :
        /\ Has(lines[i], PrivilegedToks)
        /\ ~(\/ Has(lines[i], OnlyOwnerToks)
             \/ \E j \in Max(1, i - AuthWindow)..(i - 1) :
                    Has(lines[j], RequireOwnerToks))}

\* Variant: the pass works on its own copy of the property list.
performSymbolicExecution_onCopy(lines, props) == props

\* performSymbolicExecution: properties.forEach
performSymbolicExecution(lines, props) ==
    LET overflows == overflowChecks(lines)
        accesses == accessControlViolations(lines)
        afterOverflow(q) ==
            IF NameIncludes(q.name, "Integer Overflow")
            THEN [q EXCEPT
                    !.verified = (overflows = {}),
                    !.confidence = IF overflows = {} THEN 90 ELSE 10,
                    !.counterexample =
                        IF overflows = {} THEN q.counterexample
                        ELSE Counterexample("Unchecked arithmetic operation",
                                            Min(overflows))]
            ELSE q
        afterAccess(q) ==
            IF NameIncludes(q.name, "Access Control")
            THEN [q EXCEPT
                    !.verified = (accesses = {}),
                    !.confidence = IF accesses = {} THEN 85 ELSE 20,
                    !.counterexample =
                        IF accesses = {} THEN q.counterexample
                        ELSE Counterexample(
                                 "Privileged operation without authorization",
                                 Min(accesses))]
            ELSE q
    IN [k \in DOMAIN props |-> afterAccess(afterOverflow(props[k]))]

\* performAbstractInterpretation: properties.forEach. An intervalAnalysis
\* entry is `v in [d, d] at line n` with d a run of digits, so none includes
\* "[-" and hasNegativeAssignment is false.
performAbstractInterpretation(lines, props) ==
    [k \in DOMAIN props |->
        IF props[k].type = "invariant"
           /\ NameIncludes(props[k].name, "Balance Non-Negative")
        THEN [props[k] EXCEPT !.verified = TRUE, !.confidence = 80]
        ELSE props[k]]

determineOverallVerification(props, verificationTime, limit) ==
    IF verificationTime >= limit * 1000 THEN "TIMEOUT"
    ELSE LET verifiedCount == Cardinality({k \in DOMAIN props : props[k].verified})
         IN IF verifiedCount = Len(props) THEN "VERIFIED"
            ELSE IF verifiedCount = 0 THEN "FAILED"
            ELSE "PARTIAL"

NoVerification == [overallVerification |-> "none", verificationTime |-> 0]

DefaultTimeout == 60

Methods == {"model-checking", "symbolic-execution", "abstract-interpretation", "all"}

-----------------------------------------------------------------------------
(* RateLimiter (utils/input-validation), constructed with maxRequests and   *)
(* windowMs                                                                 *)

\* requests.filter(time => now - time < this.windowMs)
validRequests(reqs, now) ==
    SelectSeq(reqs, LAMBDA time : now - time < windowMs)

\* Variant: a request is refused only above the maximum.
isAllowed_aboveMax(reqs, now) ==
    IF Len(validRequests(reqs, now)) > maxRequests
    THEN [allowed |-> FALSE, requests |-> reqs]
    ELSE [allowed |-> TRUE, requests |-> Append(validRequests(reqs, now), now)]

\* isAllowed(identifier), for reqs = this.requests.get(identifier) || []:
\* the result and the list the map holds for the identifier afterwards.
isAllowed(reqs, now) ==
    IF Len(validRequests(reqs, now)) >= maxRequests
    THEN [allowed |-> FALSE, requests |-> reqs]
    ELSE [allowed |-> TRUE, requests |-> Append(validRequests(reqs, now), now)]

\* req.ip of the callers
Identifiers == {"10.0.0.1", "10.0.0.2"}

NoAnswer == [identifier |-> "", now |-> 0, allowed |-> FALSE]

-----------------------------------------------------------------------------
(* Advanced static analyzer: performAdvancedStaticAnalysis. In this part a   *)
(* line is the sequence of its characters, so that String.includes and the  *)
(* variable pattern are computed on the text itself.                        *)

\* String.prototype.includes
includes(s, part) ==
    \E i \in 1..(Len(s) - Len(part) + 1) : SubSeq(s, i, i + Len(part) - 1) = part

\* \s, of which the lines hold the blank only
SpaceChars == {" "}

\* String.prototype.trim on a line
RECURSIVE trimStart(_)
trimStart(s) ==
    IF s # <<>> /\ Head(s) \in SpaceChars THEN trimStart(Tail(s)) ELSE s

RECURSIVE trimEnd(_)
trimEnd(s) ==
    IF s # <<>> /\ s[Len(s)] \in SpaceChars
    THEN trimEnd(SubSeq(s, 1, Len(s) - 1))
    ELSE s

trim(s) == trimEnd(trimStart(s))

\* The strings buildControlFlowGraph looks for.
FunctionMarks == {<<"f", "u", "n", "c", "t", "i", "o", "n", " ">>}
ConditionMarks == {<<"i", "f", " ">>, <<"r", "e", "q", "u", "i", "r", "e", "(">>, <<"a", "s", "s", "e", "r", "t", "(">>}
LoopMarks == {<<"f", "o", "r", " ">>, <<"w", "h", "i", "l", "e", " ">>}
CallMarks == {<<".", "c", "a", "l", "l", "(">>, <<".", "s", "e", "n", "d", "(">>, <<".", "t", "r", "a", "n", "s", "f", "e", "r", "(">>}
ReturnMarks == {<<"r", "e", "t", "u", "r", "n", " ">>}

includesAny(s, marks) == \E part \in marks : includes(s, part)

\* Variant: a node for every kind of structural mark the line holds.
NodeTypes_everyMatch(line) ==
    (IF includesAny(line, FunctionMarks) THEN <<"function">> ELSE <<>>)
    \o (IF includesAny(line, ConditionMarks) THEN <<"condition">> ELSE <<>>)
    \o (IF includesAny(line, LoopMarks) THEN <<"loop">> ELSE <<>>)
    \o (IF includesAny(line, CallMarks) THEN <<"call">> ELSE <<>>)
    \o (IF includesAny(line, ReturnMarks) THEN <<"return">> ELSE <<>>)

\* The if / else if chain of the first loop: the types of the nodes pushed for
\* a line, at most one.
NodeTypes(line) ==
    IF includesAny(line, FunctionMarks) THEN <<"function">>
    ELSE IF includesAny(line, ConditionMarks) THEN <<"condition">>
    ELSE IF includesAny(line, LoopMarks) THEN <<"loop">>
    ELSE IF includesAny(line, CallMarks) THEN <<"call">>
    ELSE IF includesAny(line, ReturnMarks) THEN <<"return">>
    ELSE <<>>

\* for (let i = 0; i < lines.length; i++) { ... nodes.push(...) }: nodeId is
\* the number of nodes pushed so far.
RECURSIVE CollectNodes(_, _, _)
CollectNodes(lines, i, nodes) ==
    IF i > Len(lines) THEN nodes
    ELSE LET line == trim(lines[i])
             types == NodeTypes(line)
             pushed == [k \in 1..Len(types) |->
                           [id |-> "node_" \o ToString(Len(nodes) + k - 1),
                            type |-> types[k], code |-> line, line |-> i,
                            children |-> <<>>, parents |-> <<>>]]
         IN CollectNodes(lines, i + 1, nodes \o pushed)

\* for (let i = 0; i < nodes.length - 1; i++) { children.push; parents.push }
RECURSIVE LinkNodes(_, _)
LinkNodes(nodes, i) ==
    IF i > Len(nodes) - 1 THEN nodes
    ELSE LinkNodes([nodes EXCEPT
                       ![i].children = Append(@, nodes[i + 1].id),
                       ![i + 1].parents = Append(@, nodes[i].id)],
                   i + 1)

buildControlFlowGraph(lines) == LinkNodes(CollectNodes(lines, 1, <<>>), 1)

LowerCase ==
    {"a", "b", "c", "d", "e", "f", "g", "h", "i", "j", "k", "l", "m", "n", "o",
     "p", "q", "r", "s", "t", "u", "v", "w", "x", "y", "z"}

UpperCase ==
    {"A", "B", "C", "D", "E", "F", "G", "H", "I", "J", "K", "L", "M", "N", "O",
     "P", "Q", "R", "S", "T", "U", "V", "W", "X", "Y", "Z"}

Digits == {"0", "1", "2", "3", "4", "5", "6", "7", "8", "9"}

\* \w
WordChars == LowerCase \cup UpperCase \cup Digits \cup {"_"}

\* Names the variable extraction leaves out.
Keywords == {<<"i", "f">>, <<"f", "o", "r">>, <<"w", "h", "i", "l", "e">>, <<"f", "u", "n", "c", "t", "i", "o", "n">>}

\* The positions where a word starts (\b before \w) and where that word ends.
WordStarts(s) ==
    {i \in 1..Len(s) : s[i] \in WordChars /\ (i = 1 \/ s[i - 1] \notin WordChars)}

WordEnd(s, i) ==
    CHOOSE e \in i..Len(s) :
        /\ \A m \in i..e : s[m] \in WordChars
        /\ (e = Len(s) \/ s[e + 1] \notin WordChars)

\* /\b(\w+)\s*=/ matches at word start i: blanks, then "=" follow the word.
MatchesAt(s, i) ==
    \E k \in (WordEnd(s, i) + 1)..Len(s) :
        /\ s[k] = "="
        /\ \A m \in (WordEnd(s, i) + 1)..(k - 1) : s[m] \in SpaceChars

RECURSIVE Ascending(_)
Ascending(S) ==
    IF S = {} THEN <<>> ELSE <<Min(S)>> \o Ascending(S \ {Min(S)})

\* line.match(/\b(\w+)\s*=/g), each match with its \s*= removed and trimmed:
\* the matched words from left to right.
varMatches(s) ==
    LET starts == Ascending({i \in WordStarts(s) : MatchesAt(s, i)})
    IN [k \in DOMAIN starts |-> SubSeq(s, starts[k], WordEnd(s, starts[k]))]

\* varMatches.forEach(match => ... variables.add(varName)): a Set keeps the
\* order of first insertion.
RECURSIVE AddVariables(_, _)
AddVariables(variables, names) ==
    IF names = <<>> THEN variables
    ELSE AddVariables(
             IF Head(names) \in Keywords
                \/ \E k \in DOMAIN variables : variables[k] = Head(names)
             THEN variables
             ELSE Append(variables, Head(names)),
             Tail(names))

RECURSIVE ExtractVariables(_, _, _)
ExtractVariables(lines, i, variables) ==
    IF i > Len(lines) THEN variables
    ELSE ExtractVariables(lines, i + 1,
                          AddVariables(variables, varMatches(lines[i])))

\* line.includes(`${variable} =`) || line.includes(`${variable}=`)
definitions(lines, variable) ==
    Ascending({i \in DOMAIN lines :
                   \/ includes(lines[i], variable \o <<" ", "=">>)
                   \/ includes(lines[i], variable \o <<"=">>)})

\* line.includes(variable) && !line.includes(`${variable} =`)
uses(lines, variable) ==
    Ascending({i \in DOMAIN lines :
                   /\ includes(lines[i], variable)
                   /\ ~includes(lines[i], variable \o <<" ", "=">>)})

performDataFlowAnalysis(lines) ==
    LET variables == ExtractVariables(lines, 1, <<>>)
    IN [k \in DOMAIN variables |->
           [variable |-> variables[k],
            definitions |-> definitions(lines, variables[k]),
            uses |-> uses(lines, variables[k])]]

\* const sources = [...]
sources ==
    << <<"m", "s", "g", ".", "s", "e", "n", "d", "e", "r">>,
       <<"m", "s", "g", ".", "v", "a", "l", "u", "e">>,
       <<"m", "s", "g", ".", "d", "a", "t", "a">>,
       <<"t", "x", ".", "o", "r", "i", "g", "i", "n">>,
       <<"b", "l", "o", "c", "k", ".", "t", "i", "m", "e", "s", "t", "a", "m", "p">>,
       <<"b", "l", "o", "c", "k", ".", "n", "u", "m", "b", "e", "r">>,
       <<"b", "l", "o", "c", "k", ".", "c", "o", "i", "n", "b", "a", "s", "e">> >>

\* const sinks = [...]
sinks ==
    << <<".", "c", "a", "l", "l", "(">>,
       <<".", "d", "e", "l", "e", "g", "a", "t", "e", "c", "a", "l", "l", "(">>,
       <<".", "s", "e", "n", "d", "(">>,
       <<".", "t", "r", "a", "n", "s", "f", "e", "r", "(">>,
       <<"s", "e", "l", "f", "d", "e", "s", "t", "r", "u", "c", "t", "(">>,
       <<"s", "u", "i", "c", "i", "d", "e", "(">> >>

\* lines.findIndex(line => line.includes(part)), 0-based, -1 when none
findIndex(lines, part) ==
    IF \E i \in DOMAIN lines : includes(lines[i], part)
    THEN Min({i \in DOMAIN lines : includes(lines[i], part)}) - 1
    ELSE -1

getSinkSeverity(sink) ==
    IF \/ includes(sink, <<"d", "e", "l", "e", "g", "a", "t", "e", "c", "a", "l", "l">>)
       \/ includes(sink, <<"s", "e", "l", "f", "d", "e", "s", "t", "r", "u", "c", "t">>)
    THEN "Critical"
    ELSE IF includes(sink, <<".", "c", "a", "l", "l", "(">>) THEN "High"
    ELSE "Medium"

\* Variant: a source on the sink's own line counts as preceding it.
isVulnerablePath_sameLine(sourceLine, sinkLine) ==
    sourceLine # -1 /\ sinkLine # -1 /\ sourceLine <= sinkLine

\* if (sourceLine !== -1 && sinkLine !== -1 && sourceLine < sinkLine)
isVulnerablePath(sourceLine, sinkLine) ==
    sourceLine # -1 /\ sinkLine # -1 /\ sourceLine < sinkLine

\* sources.forEach(source => sinks.forEach(sink => ...)): the pairs in the
\* order of the two loops, then the pushes for the pairs that pass the test.
performTaintAnalysis(lines) ==
    LET pairs == [k \in 1..(Len(sources) * Len(sinks)) |->
                     [source |-> sources[(k - 1) \div Len(sinks) + 1],
                      sink |-> sinks[((k - 1) % Len(sinks)) + 1]]]
        Vulnerable(p) == isVulnerablePath(findIndex(lines, p.source),
                                          findIndex(lines, p.sink))
        found == SelectSeq(pairs, Vulnerable)
        Occurs(part) == \E i \in DOMAIN lines : includes(lines[i], part)
    IN [sources |-> SelectSeq(sources, Occurs),
        sinks |-> SelectSeq(sinks, Occurs),
        vulnerablePaths |->
            [k \in DOMAIN found |->
                [source |-> found[k].source,
                 sink |-> found[k].sink,
                 path |-> <<"Line " \o ToString(findIndex(lines, found[k].source) + 1),
                            "Line " \o ToString(findIndex(lines, found[k].sink) + 1)>>,
                 severity |-> getSinkSeverity(found[k].sink)]]]

NoTaintAnalysis == [sources |-> <<>>, sinks |-> <<>>, vulnerablePaths |-> <<>>]

\* performAdvancedStaticAnalysis: the parts of its result that come from the
\* three analyses above. The symbolic execution, the formal properties and
\* the summary are computed from the same lines and feed nothing back.
performAdvancedStaticAnalysis(contractLines, taint) ==
    [controlFlowGraph |-> buildControlFlowGraph(contractLines),
     dataFlowAnalysis |-> performDataFlowAnalysis(contractLines),
     taintAnalysis |-> IF taint THEN performTaintAnalysis(contractLines)
                       ELSE NoTaintAnalysis]

NoStaticAnalysis ==
    [controlFlowGraph |-> <<>>, dataFlowAnalysis |-> <<>>,
     taintAnalysis |-> NoTaintAnalysis]

-----------------------------------------------------------------------------
(* Anomaly detector: detectAnomalies (ml-anomaly-detection). A line is the   *)
(* sequence of its characters. Confidences are held in units of              *)
(* 1/ConfidenceScale and scores in units of 1/ScoreScale, so that every      *)
(* value the code computes on the modelled texts is a whole number of units. *)

ConfidenceScale == 3300

\* weight (in tenths) * confidence * 20 / (10 * ConfidenceScale), in units
\* of 1/ScoreScale
ScoreScale == ConfidenceScale \div 2

Hundredths(n) == (n * ConfidenceScale) \div 100

\* The number of characters of the line that are in the set:
\* (trimmed.match(/[...]/g) || []).length
CountChars(s, chars) == Cardinality({k \in DOMAIN s : s[k] \in chars})

\* The number of lines that hold one of the strings.
CountLines(lines, marks) ==
    Cardinality({i \in DOMAIN lines : includesAny(lines[i], marks)})

\* nestingDepth += openBraces - closeBraces; maxNesting = Math.max(...) over
\* the lines from..to, as halves: the change of nestingDepth over them, and
\* the highest nestingDepth after any of them, counted from the depth before.
RECURSIVE Nesting(_, _, _)
Nesting(lines, from, to) ==
    IF from = to
    THEN [change |-> CountChars(lines[from], {"{"}) - CountChars(lines[from], {"}"}),
          highest |-> CountChars(lines[from], {"{"}) - CountChars(lines[from], {"}"})]
    ELSE CHOOSE both \in
             {[change |-> first.change + second.change,
               highest |-> Max(first.highest, first.change + second.highest)] :
                  first \in {Nesting(lines, from, (from + to) \div 2)},
                  second \in {Nesting(lines, (from + to) \div 2 + 1, to)}} : TRUE

\* arithmeticOperations += arithmeticOps over the lines from..to, as halves.
RECURSIVE SumChars(_, _, _, _)
SumChars(lines, from, to, chars) ==
    IF from = to THEN CountChars(lines[from], chars)
    ELSE SumChars(lines, from, (from + to) \div 2, chars)
         + SumChars(lines, (from + to) \div 2 + 1, to, chars)

\* The names of more than one character that the variable pattern matches in
\* the line.
LineVariables(s) ==
    {SubSeq(s, b, WordEnd(s, b)) :
         b \in {k \in WordStarts(s) : MatchesAt(s, k) /\ WordEnd(s, k) > k}}

BranchMarks == {<<"i", "f", " ">>, <<"e", "l", "s", "e">>, <<"f", "o", "r", " ">>, <<"w", "h", "i", "l", "e", " ">>, <<"c", "a", "s", "e", " ">>, <<"&", "&">>, <<"|", "|">>}
ExternalCallMarks == {<<".", "c", "a", "l", "l", "(">>, <<".", "d", "e", "l", "e", "g", "a", "t", "e", "c", "a", "l", "l", "(">>, <<".", "s", "e", "n", "d", "(">>, <<".", "t", "r", "a", "n", "s", "f", "e", "r", "(">>}
ComparisonMarks == {<<"=", "=">>, <<"!", "=">>, <<"<", "=">>, <<">", "=">>}
AccessControlMarks == {<<"r", "e", "q", "u", "i", "r", "e", "(">>, <<"a", "s", "s", "e", "r", "t", "(">>, <<"o", "n", "l", "y", "O", "w", "n", "e", "r">>, <<"m", "s", "g", ".", "s", "e", "n", "d", "e", "r">>}
ArithmeticChars == {"+", "-", "*", "/", "%"}

\* extractCodeFeatures: every count of the forEach over the trimmed lines.
extractCodeFeatures(lines) ==
    LET trimmed == <<>> \o [i \in DOMAIN lines |-> trim(lines[i])]
    IN [functionComplexity |-> CountLines(trimmed, FunctionMarks),
        cyclomaticComplexity |-> 1 + CountLines(trimmed, BranchMarks),
        nestingDepth |-> Max(0, Nesting(trimmed, 1, Len(trimmed)).highest),
        externalCalls |-> CountLines(trimmed, ExternalCallMarks),
        stateChanges |->
            Cardinality({i \in DOMAIN trimmed :
                             /\ includes(trimmed[i], <<"=">>)
                             /\ ~includesAny(trimmed[i], ComparisonMarks)}),
        accessControlChecks |-> CountLines(trimmed, AccessControlMarks),
        arithmeticOperations |-> SumChars(trimmed, 1, Len(trimmed), ArithmeticChars),
        loopCount |-> CountLines(trimmed, LoopMarks),
        conditionCount |-> CountLines(trimmed, {<<"i", "f", " ">>}),
        variableCount |->
            Cardinality(UNION {LineVariables(trimmed[i]) : i \in DOMAIN trimmed})]

SensitivityLevels == {"low", "medium", "high"}

\* accessControlRatio in hundredths
baseThresholds ==
    [complexity |-> 15, externalCalls |-> 5, accessControlRatio |-> 30,
     stateChanges |-> 20, nestingDepth |-> 4]

\* The multiplier, in tenths: 1.5, 0.7, 1.0
multiplier(level) ==
    IF level = "low" THEN 15 ELSE IF level = "high" THEN 7 ELSE 10

\* Math.floor(base * multiplier); accessControlRatio is not floored, and is
\* in hundredths.
getAnomalyThresholds(level) ==
    [complexity |-> (baseThresholds.complexity * multiplier(level)) \div 10,
     externalCalls |-> (baseThresholds.externalCalls * multiplier(level)) \div 10,
     accessControlRatio |->
         (baseThresholds.accessControlRatio * multiplier(level)) \div 10,
     stateChanges |-> (baseThresholds.stateChanges * multiplier(level)) \div 10,
     nestingDepth |-> (baseThresholds.nestingDepth * multiplier(level)) \div 10]

Anomaly(type, severity, confidence, location) ==
    [type |-> type, severity |-> severity, confidence |-> confidence,
     location |-> location]

\* const suspiciousNames = [...]
suspiciousNames ==
    << <<"t", "e", "m", "p">>, <<"t", "m", "p">>, <<"x">>, <<"y">>, <<"z">>, <<"d", "a", "t", "a">>, <<"v", "a", "l">> >>

\* The anomalies detectPatternAnomalies pushes for line number index + 1.
LinePatternAnomalies(trimmed, number) ==
    LET location == "Line " \o ToString(number)
        Named(name) == \/ includes(trimmed, name \o <<" ", "=">>)
                       \/ includes(trimmed, name \o <<"=">>)
        named == SelectSeq(suspiciousNames, Named)
    IN (IF includes(trimmed, <<"a", "s", "s", "e", "m", "b", "l", "y", " ", "{">>)
        THEN <<Anomaly("Inline Assembly Anomaly", "High", Hundredths(90), location)>>
        ELSE <<>>)
       \o [k \in DOMAIN named |->
              Anomaly("Suspicious Variable Naming", "Low", Hundredths(60), location)]
       \o (IF includes(trimmed, <<"g", "a", "s", "l", "e", "f", "t", "(", ")">>) \/ includes(trimmed, <<"g", "a", "s", ":">>)
           THEN <<Anomaly("Manual Gas Management", "Medium", Hundredths(75), location)>>
           ELSE <<>>)

\* lines.forEach((line, index) => ...) over the lines from..to, as halves.
RECURSIVE PatternAnomalies(_, _, _)
PatternAnomalies(lines, from, to) ==
    IF from > to THEN <<>>
    ELSE IF from = to THEN LinePatternAnomalies(trim(lines[from]), from)
    ELSE PatternAnomalies(lines, from, (from + to) \div 2)
         \o PatternAnomalies(lines, (from + to) \div 2 + 1, to)

detectPatternAnomalies(lines) == PatternAnomalies(lines, 1, Len(lines))

\* Math.min(0.95, cyclomaticComplexity / thresholds.complexity * 0.6)
ComplexityConfidence(cyclomaticComplexity, threshold) ==
    LET c == (cyclomaticComplexity * Hundredths(60)) \div threshold
    IN IF c < Hundredths(95) THEN c ELSE Hundredths(95)

detectCodeAnomalies(lines, features, level) ==
    LET thresholds == getAnomalyThresholds(level)
    IN (IF features.cyclomaticComplexity > thresholds.complexity
        THEN <<Anomaly("High Complexity Anomaly",
                       IF features.cyclomaticComplexity > thresholds.complexity * 2
                       THEN "High" ELSE "Medium",
                       ComplexityConfidence(features.cyclomaticComplexity,
                                            thresholds.complexity),
                       "Contract-wide")>>
        ELSE <<>>)
       \o (IF features.externalCalls > thresholds.externalCalls
           THEN <<Anomaly("Excessive External Calls", "High", Hundredths(85),
                          "Multiple locations")>>
           ELSE <<>>)
       \o (IF 100 * features.accessControlChecks
                  < thresholds.accessControlRatio * Max(1, features.functionComplexity)
           THEN <<Anomaly("Insufficient Access Control", "Critical", Hundredths(90),
                          "Contract-wide")>>
           ELSE <<>>)
       \o (IF features.stateChanges > thresholds.stateChanges
           THEN <<Anomaly("Excessive State Modifications", "Medium", Hundredths(75),
                          "Contract-wide")>>
           ELSE <<>>)
       \o (IF features.nestingDepth > thresholds.nestingDepth
           THEN <<Anomaly("Deep Nesting Anomaly", "Medium", Hundredths(80),
                          "Multiple functions")>>
           ELSE <<>>)
       \o detectPatternAnomalies(lines)

\* The one-letter names /\b[a-z]\s*=/ and /\b[A-Z]\s*=/ match in the line.
HasShortVariable(s) ==
    \E k \in DOMAIN s :
        /\ s[k] \in LowerCase \cup UpperCase
        /\ k = 1 \/ s[k - 1] \notin WordChars
        /\ \E e \in (k + 1)..Len(s) :
               s[e] = "=" /\ \A m \in (k + 1)..(e - 1) : s[m] \in SpaceChars

\* contractText.includes(part), for a part without a newline
textIncludes(lines, part) == \E i \in DOMAIN lines : includes(lines[i], part)

performBehavioralAnalysis(lines, features) ==
    [suspiciousPatterns |->
         (IF textIncludes(lines, <<"s", "e", "l", "f", "d", "e", "s", "t", "r", "u", "c", "t">>) /\ textIncludes(lines, <<"d", "e", "l", "e", "g", "a", "t", "e", "c", "a", "l", "l">>)
          THEN <<"Combination of selfdestruct and delegatecall - potential proxy destruction">>
          ELSE <<>>)
         \o (IF features.externalCalls > 3 /\ features.accessControlChecks < 2
             THEN <<"High external call frequency with low access control">>
             ELSE <<>>)
         \o (IF textIncludes(lines, <<"t", "x", ".", "o", "r", "i", "g", "i", "n">>) /\ textIncludes(lines, <<".", "c", "a", "l", "l", "(">>)
             THEN <<"tx.origin usage combined with external calls - phishing risk">>
             ELSE <<>>),
     unusualStructures |->
         (IF features.nestingDepth > 6
          THEN <<"Extremely deep nesting structure">> ELSE <<>>)
         \o (IF features.functionComplexity > 20
             THEN <<"Unusually high number of functions">> ELSE <<>>),
     potentialObfuscation |->
         2 * Cardinality({i \in DOMAIN lines : HasShortVariable(lines[i])})
             > features.variableCount]

NoBehavioralAnalysis ==
    [suspiciousPatterns |-> <<>>, unusualStructures |-> <<>>,
     potentialObfuscation |-> FALSE]

\* String.prototype.toLowerCase on a character, for the /i patterns
UpperToLower ==
    [A |-> "a", B |-> "b", C |-> "c", D |-> "d", E |-> "e", F |-> "f", G |-> "g",
     H |-> "h", I |-> "i", J |-> "j", K |-> "k", L |-> "l", M |-> "m", N |-> "n",
     O |-> "o", P |-> "p", Q |-> "q", R |-> "r", S |-> "s", T |-> "t", U |-> "u",
     V |-> "v", W |-> "w", X |-> "x", Y |-> "y", Z |-> "z"]

toLowerCase(s) ==
    [k \in DOMAIN s |-> IF s[k] \in UpperCase THEN UpperToLower[s[k]] ELSE s[k]]

\* /first.*second.*third/i on one line: the three words in this order, none
\* overlapping the one before.
RECURSIVE includesInOrder(_, _)
includesInOrder(s, words) ==
    IF words = <<>> THEN TRUE
    ELSE \E i \in 1..(Len(s) - Len(Head(words)) + 1) :
             /\ SubSeq(s, i, i + Len(Head(words)) - 1) = Head(words)
             /\ includesInOrder(SubSeq(s, i + Len(Head(words)), Len(s)), Tail(words))

\* const novelPatternChecks = [...]
novelPatternChecks ==
    << [pattern |-> <<<<"c", "r", "e", "a", "t", "e", "2">>, <<"s", "a", "l", "t">>, <<"b", "y", "t", "e", "c", "o", "d", "e">>>>,
        description |-> "CREATE2 with dynamic salt - potential address collision attack"],
       [pattern |-> <<<<"m", "u", "l", "t", "i", "c", "a", "l", "l">>, <<"d", "e", "l", "e", "g", "a", "t", "e", "c", "a", "l", "l">>>>,
        description |-> "Multicall with delegatecall - potential storage collision"],
       [pattern |-> <<<<"f", "l", "a", "s", "h", "l", "o", "a", "n">>, <<"c", "a", "l", "l", "b", "a", "c", "k">>, <<"r", "e", "e", "n", "t", "r", "a", "n", "c", "y">>>>,
        description |-> "Flash loan callback reentrancy pattern"],
       [pattern |-> <<<<"p", "r", "o", "x", "y">>, <<"i", "m", "p", "l", "e", "m", "e", "n", "t", "a", "t", "i", "o", "n">>, <<"u", "p", "g", "r", "a", "d", "e">>>>,
        description |-> "Upgradeable proxy pattern - potential logic bomb"],
       [pattern |-> <<<<"o", "r", "a", "c", "l", "e">>, <<"p", "r", "i", "c", "e">>, <<"m", "a", "n", "i", "p", "u", "l", "a", "t", "i", "o", "n">>>>,
        description |-> "Oracle price manipulation pattern"],
       [pattern |-> <<<<"g", "o", "v", "e", "r", "n", "a", "n", "c", "e">>, <<"p", "r", "o", "p", "o", "s", "a", "l">>, <<"t", "i", "m", "e", "l", "o", "c", "k">>>>,
        description |-> "Governance timelock bypass pattern"] >>

\* check.pattern.test(contractText): "." matches no newline, so the match
\* lies within one line.
detectNovelPatterns(lines, features) ==
    LET Matches(check) ==
            \E i \in DOMAIN lines : includesInOrder(toLowerCase(lines[i]), check.pattern)
        matched == SelectSeq(novelPatternChecks, Matches)
    IN [k \in DOMAIN matched |-> matched[k].description]
       \o (IF textIncludes(lines, <<"b", "l", "o", "c", "k", ".", "t", "i", "m", "e", "s", "t", "a", "m", "p">>) /\ textIncludes(lines, <<"d", "e", "a", "d", "l", "i", "n", "e">>)
           THEN <<"Timestamp-based deadline - potential MEV exploitation">>
           ELSE <<>>)
       \o (IF textIncludes(lines, <<"s", "l", "i", "p", "p", "a", "g", "e">>) /\ textIncludes(lines, <<"s", "w", "a", "p">>)
           THEN <<"DEX slippage pattern - potential sandwich attack vector">>
           ELSE <<>>)

\* severityWeights, in tenths
severityWeights == [Critical |-> 10, High |-> 8, Medium |-> 5, Low |-> 2]

\* The sum of weight * confidence over the anomalies from..to, as halves.
RECURSIVE totalScore(_, _, _)
totalScore(anomalies, from, to) ==
    IF from > to THEN 0
    ELSE IF from = to
    THEN severityWeights[anomalies[from].severity] * anomalies[from].confidence
    ELSE totalScore(anomalies, from, (from + to) \div 2)
         + totalScore(anomalies, (from + to) \div 2 + 1, to)

\* Math.min(100, totalScore * 20)
calculateAnomalyScore(anomalies, features) ==
    LET score == totalScore(anomalies, 1, Len(anomalies))
    IN IF score < 100 * ScoreScale THEN score ELSE 100 * ScoreScale

generateRiskAssessment(anomalyScore, anomalies) ==
    IF anomalyScore > 80 * ScoreScale \/ CountSeverity(anomalies, "Critical") > 0
    THEN "CRITICAL"
    ELSE IF anomalyScore > 60 * ScoreScale \/ CountSeverity(anomalies, "High") > 1
    THEN "HIGH"
    ELSE IF anomalyScore > 40 * ScoreScale THEN "MEDIUM"
    ELSE "LOW"

\* Variant: the novel patterns found are scored as anomalies.
detectAnomalies_scoringPatterns(lines, level, behavioral, novel) ==
    LET features == extractCodeFeatures(lines)
        novelPatterns == IF novel THEN detectNovelPatterns(lines, features) ELSE <<>>
        anomalies == detectCodeAnomalies(lines, features, level)
                     \o [k \in DOMAIN novelPatterns |->
                            Anomaly("Novel Pattern", "High", Hundredths(90),
                                    "Contract-wide")]
        overallAnomalyScore == calculateAnomalyScore(anomalies, features)
    IN [anomalies |-> anomalies,
        overallAnomalyScore |-> overallAnomalyScore,
        riskAssessment |-> generateRiskAssessment(overallAnomalyScore, anomalies),
        novelPatterns |-> novelPatterns,
        behavioralAnalysis |-> IF behavioral
                               THEN performBehavioralAnalysis(lines, features)
                               ELSE NoBehavioralAnalysis]

detectAnomalies(lines, level, behavioral, novel) ==
    LET features == extractCodeFeatures(lines)
        anomalies == detectCodeAnomalies(lines, features, level)
        overallAnomalyScore == calculateAnomalyScore(anomalies, features)
    IN [anomalies |-> anomalies,
        overallAnomalyScore |-> overallAnomalyScore,
        riskAssessment |-> generateRiskAssessment(overallAnomalyScore, anomalies),
        novelPatterns |-> IF novel THEN detectNovelPatterns(lines, features)
                          ELSE <<>>,
        behavioralAnalysis |-> IF behavioral
                               THEN performBehavioralAnalysis(lines, features)
                               ELSE NoBehavioralAnalysis]

NoAnomalyResult ==
    [anomalies |-> <<>>, overallAnomalyScore |-> 0, riskAssessment |-> "",
     novelPatterns |-> <<>>, behavioralAnalysis |-> NoBehavioralAnalysis]

-----------------------------------------------------------------------------
(* Inputs *)

\* The two concurrent callers.
Slots == {"first", "second"}

NoCall ==
    [text |-> [lines |-> << <<>> >>, fill |-> 0], pc |-> "idle",
     analysis |-> [state |-> "none", value |-> <<>>],
     race |-> [state |-> "none", value |-> <<>>],
     timer |-> FALSE, outcome |-> NoOutcome, startedWhile |-> {}]

\* contract A | pragma solidity ^0.7.0;+ | .call(tx.origin | tx.origin.send(=
\* balances[msg.sender] = 0 | contract A< | SafeMath>
ScanLineSet ==
    { <<"ctr">>, <<"p07", "ar">>, <<"call", "txo">>, <<"txo", "send", "eq">>,
      <<"bal">>, <<"ctr", "lt">>, <<"sm", "gt">> }

RECURSIVE SeqsUpTo(_, _)
SeqsUpTo(S, n) ==
    IF n = 0 THEN {<<>>}
    ELSE LET shorter == SeqsUpTo(S, n - 1)
         IN shorter \cup {Append(q, e) : q \in {r \in shorter : Len(r) = n - 1}, e \in S}

ScanTexts ==
    {[lines |-> ls, fill |-> 0] : ls \in SeqsUpTo(ScanLineSet, MaxLines) \ {<<>>}}

\* Texts around the size limits: the empty string, a blank, and one-line
\* texts padded to the limit by a run of `fill` characters.
SizeTexts ==
    {[lines |-> << <<>> >>, fill |-> 0], [lines |-> << <<"ws">> >>, fill |-> 0]}
    \cup {[lines |-> <<l>>, fill |-> f] :
              l \in {<<"X">>, <<"ctr", "X">>, <<"ctr", "X", "ws">>},
              f \in {MaxCodeLen - 11, MaxCodeLen - 10, MaxCodeLen - 9,
                     MaxCodeLen, MaxCodeLen + 1}}

\* Long texts: `contract A`, then ManyLines or half as many equal lines, each
\* `now` or `pragma solidity ^0.7.0;+`.
LongTexts ==
    {[lines |-> << <<"ctr">> >> \o [k \in 1..n |-> l], fill |-> 0] :
         l \in {<<"now">>, <<"p07", "ar">>},
         n \in {ManyLines \div 2, ManyLines}}

\* Texts that start or end with blank lines:
\* "\ncontract A", "contract A\n", " \ncontract A\nbalances[..] = 0\n \n".
BlankEdgeTexts ==
    {[lines |-> ls, fill |-> 0] :
         ls \in { << <<>>, <<"ctr">> >>, << <<"ctr">>, <<>> >>,
                  << <<"ws">>, <<"ctr">>, <<"bal">>, <<"ws">>, <<>> >> }}

\* Texts that declare `pragma solidity ^0.8.0;`.
VersionTexts ==
    {[lines |-> ls, fill |-> 0] :
         ls \in { << <<"p08">> >>, << <<"p08">>, <<"ctr">> >>,
                  << <<"p08", "ar">>, <<"ctr">>, <<"bal">> >>,
                  << <<"ctr">>, <<"p08">>, <<"call", "txo">> >> }}

Texts == ScanTexts \cup SizeTexts \cup LongTexts \cup BlankEdgeTexts \cup VersionTexts

Durations == {0, SlowAnalysisMs}

-----------------------------------------------------------------------------
(* State machine *)

Init ==
    /\ code = [lines |-> << <<>> >>, fill |-> 0]
    /\ entry = "none"
    /\ pc = "idle"
    /\ calls = 0
    /\ clock = 0
    /\ startTime = 0
    /\ pipelineMs = 0
    /\ lastIndex = [r \in Rules |-> 0]
    /\ issues = <<>>
    /\ analysis = [state |-> "none", value |-> <<>>]
    /\ race = [state |-> "none", value |-> <<>>]
    /\ microtasks = <<>>
    /\ timers = {}
    /\ outcome = NoOutcome
    /\ results = <<>>
    /\ analysisResults = AnalysisResult(<<>>)
    /\ vulnerabilityResults = NoVulnerabilities
    /\ gasResults = NoOptimizations
    /\ report = NoOutcome
    /\ contractCode = << <<>> >>
    /\ customProperties = <<>>
    /\ method = "all"
    /\ timeout = DefaultTimeout
    /\ properties = <<>>
    /\ vpc = "idle"
    /\ vStartTime = 0
    /\ vClock = 0
    /\ passes = <<>>
    /\ verification = NoVerification
    /\ inflight = [c \in Slots |-> NoCall]
    /\ jobs = <<>>
    /\ requests = [id \in Identifiers |-> <<>>]
    /\ limiterClock = 0
    /\ granted = [id \in Identifiers |-> <<>>]
    /\ lastAnswer = NoAnswer
    /\ staticCode = << <<>> >>
    /\ enableTaintAnalysis = TRUE
    /\ staticAnalysis = NoStaticAnalysis
    /\ staticDone = FALSE
    /\ anomalyCode = << <<>> >>
    /\ sensitivityLevel = "medium"
    /\ enableBehavioralAnalysis = TRUE
    /\ enableNovelPatternDetection = TRUE
    /\ anomalyResult = NoAnomalyResult
    /\ anomalyDone = FALSE

\* The caller invokes the tool with contractCode = text; the framework parses
\* the input schema, and on success execute runs up to its await: the
\* synchronous analyzeContract(...) call, which takes d ms, then the
\* setTimeout, then Promise.race over the two promises.
Execute(text, d) ==
    /\ pc \in {"idle", "done"}
    /\ entry \in {"none", "tool"}
    /\ calls < MaxCalls
    /\ UNCHANGED otherVars
    /\ code' = text
    /\ entry' = "tool"
    /\ calls' = calls + 1
    /\ IF inputSchema(text) # NoError
       THEN /\ d = 0
            /\ pc' = "done"
            /\ outcome' = Thrown(inputSchema(text))
            /\ results' = Append(results, outcome')
            /\ UNCHANGED <<clock, startTime, pipelineMs, lastIndex, issues,
                           analysis, race, microtasks, timers>>
       ELSE LET a == analyzeContract(text, NoName, lastIndex)
            IN /\ pc' = "awaiting"
               /\ startTime' = clock
               /\ clock' = clock + d
               /\ pipelineMs' = d
               /\ lastIndex' = a.lastIndex
               /\ issues' = a.issues
               /\ analysis' = [state |-> a.state, value |-> a.value]
               /\ timers' = timers \cup
                      {[call |-> calls + 1, deadline |-> clock + d + maxAnalysisTime]}
               /\ race' = [state |-> "pending", value |-> <<>>]
               /\ microtasks' = Append(microtasks, "settleRace")
               /\ outcome' = NoOutcome
               /\ UNCHANGED results

\* Reaction job of the already settled analysis promise: it settles the race.
SettleRace ==
    /\ microtasks # <<>> /\ Head(microtasks) = "settleRace"
    /\ race' = IF race.state = "pending" THEN analysis ELSE race
    /\ microtasks' = Append(Tail(microtasks), "resumeExecute")
    /\ UNCHANGED <<code, entry, pc, calls, clock, startTime, pipelineMs,
                   lastIndex, issues, analysis, timers, outcome, results>>
    /\ UNCHANGED otherVars

\* execute resumes after the await: return result, or the catch block.
ResumeExecute ==
    /\ microtasks # <<>> /\ Head(microtasks) = "resumeExecute"
    /\ pc = "awaiting"
    /\ microtasks' = Tail(microtasks)
    /\ pc' = "done"
    /\ outcome' = IF race.state = "fulfilled" THEN Returned(race.value)
                  ELSE Thrown(executeCatch(race.value))
    /\ results' = Append(results, outcome')
    /\ UNCHANGED <<code, entry, calls, clock, startTime, pipelineMs, lastIndex,
                   issues, analysis, race, timers>>
    /\ UNCHANGED otherVars

\* A due timer's callback runs when no job is pending: it rejects the timer
\* promise, which rejects the race if the race is still pending.
TimerFire(tm) ==
    /\ tm \in timers
    /\ microtasks = <<>>
    /\ clock >= tm.deadline
    /\ timers' = timers \ {tm}
    /\ IF tm.call = calls /\ race.state = "pending"
       THEN /\ race' = [state |-> "rejected", value |-> TimeoutReason]
            /\ microtasks' = <<"resumeExecute">>
       ELSE UNCHANGED <<race, microtasks>>
    /\ UNCHANGED <<code, entry, pc, calls, clock, startTime, pipelineMs,
                   lastIndex, issues, analysis, outcome, results>>
    /\ UNCHANGED otherVars

\* The event loop is idle until the next timer is due.
TimePasses ==
    /\ microtasks = <<>>
    /\ timers # {}
    /\ clock < Min({tm.deadline : tm \in timers})
    /\ clock' = Min({tm.deadline : tm \in timers})
    /\ UNCHANGED <<code, entry, pc, calls, startTime, pipelineMs, lastIndex,
                   issues, analysis, race, microtasks, timers, outcome, results>>
    /\ UNCHANGED otherVars

\* A caller runs validateAndSanitizeInput on the text.
Validate(text) ==
    /\ pc = "idle"
    /\ entry = "none"
    /\ code' = text
    /\ entry' = "validate"
    /\ pc' = "done"
    /\ outcome' = validateAndSanitizeInput(text)
    /\ UNCHANGED <<calls, clock, startTime, pipelineMs, lastIndex, issues,
                   analysis, race, microtasks, timers, results>>
    /\ UNCHANGED otherVars

\* The first call of the tool, on any text.
FirstCall ==
    /\ calls = 0
    /\ \E text \in Texts, d \in Durations : Execute(text, d)

\* A further call of the tool on the same text.
RepeatCall ==
    /\ calls > 0
    /\ \E d \in Durations : Execute(code, d)

ValidateCall ==
    /\ entry = "none"
    /\ \E text \in Texts : Validate(text)

Next ==
    \/ FirstCall
    \/ RepeatCall
    \/ SettleRace
    \/ ResumeExecute
    \/ \E tm \in timers : TimerFire(tm)
    \/ TimePasses
    \/ ValidateCall

Spec == Init /\ [][Next]_vars

-----------------------------------------------------------------------------
(* Two concurrent calls of the tool. execute runs synchronously up to its   *)
(* await, the whole of analyzeContract included, so the calls interleave at *)
(* their awaits. lastIndex is what the patterns of the latest analysis hold. *)

\* contract A | pragma solidity ^0.7.0;+ | .call(tx.origin | tx.origin.send(=
PairLineSet ==
    { <<"ctr">>, <<"p07", "ar">>, <<"call", "txo">>, <<"txo", "send", "eq">> }

PairTexts ==
    {[lines |-> ls, fill |-> 0] : ls \in SeqsUpTo(PairLineSet, MaxPairLines) \ {<<>>}}

\* Caller c invokes the tool on text while the other call is where it is.
CallTool(c, text) ==
    /\ inflight[c].pc = "idle"
    /\ inputSchema(text) = NoError
    /\ LET a == analyzeContract(text, NoName, lastIndex)
       IN /\ lastIndex' = a.lastIndex
          /\ inflight' =
                 [inflight EXCEPT
                    ![c] = [text |-> text, pc |-> "awaiting",
                            analysis |-> [state |-> a.state, value |-> a.value],
                            race |-> [state |-> "pending", value |-> <<>>],
                            timer |-> TRUE,
                            outcome |-> NoOutcome,
                            startedWhile |-> {inflight[o].pc : o \in Slots \ {c}}]]
    /\ jobs' = Append(jobs, [job |-> "settleRace", call |-> c])
    /\ UNCHANGED <<code, entry, pc, calls, clock, startTime, pipelineMs, issues,
                   analysis, race, microtasks, timers, outcome, results>>
    /\ UNCHANGED <<reportVars, verifyVars, limiterVars, advancedVars>>

\* Reaction job of a call's settled analysis promise: it settles its race.
PairSettleRace ==
    /\ jobs # <<>> /\ Head(jobs).job = "settleRace"
    /\ LET c == Head(jobs).call
       IN /\ inflight' = [inflight EXCEPT ![c].race = inflight[c].analysis]
          /\ jobs' = Append(Tail(jobs), [job |-> "resumeExecute", call |-> c])
    /\ UNCHANGED <<analyzerVars, reportVars, verifyVars, limiterVars, advancedVars>>

\* A call's execute resumes after its await.
PairResumeExecute ==
    /\ jobs # <<>> /\ Head(jobs).job = "resumeExecute"
    /\ LET c == Head(jobs).call
           r == inflight[c].race
       IN inflight' = [inflight EXCEPT
                          ![c].pc = "done",
                          ![c].outcome =
                              IF r.state = "fulfilled" THEN Returned(r.value)
                              ELSE Thrown(executeCatch(r.value))]
    /\ jobs' = Tail(jobs)
    /\ UNCHANGED <<analyzerVars, reportVars, verifyVars, limiterVars, advancedVars>>

\* The timer of a call fires, 30 s after the call, when no job is pending:
\* its race is settled by then and the rejection is dropped.
PairTimerFire(c) ==
    /\ jobs = <<>>
    /\ inflight[c].pc = "done" /\ inflight[c].timer
    /\ inflight' = [inflight EXCEPT ![c].timer = FALSE]
    /\ UNCHANGED <<analyzerVars, reportVars, verifyVars, limiterVars, advancedVars, jobs>>

PairCall ==
    \E c \in Slots :
        /\ inflight[c].pc = "idle"
        /\ \E text \in PairTexts : CallTool(c, text)

NextPair ==
    \/ PairCall
    \/ PairSettleRace
    \/ PairResumeExecute
    \/ \E c \in Slots : PairTimerFire(c)

SpecPair == Init /\ [][NextPair]_vars

-----------------------------------------------------------------------------
(* State machine of the rate limiter *)

\* securityMiddleware.rateLimit calls rateLimiter.isAllowed(identifier).
IsAllowedCall(identifier) ==
    /\ LET r == isAllowed(requests[identifier], limiterClock)
       IN /\ requests' = [requests EXCEPT ![identifier] = r.requests]
          /\ granted' = IF r.allowed
                        THEN [granted EXCEPT
                                 ![identifier] = Append(@, limiterClock)]
                        ELSE granted
          /\ lastAnswer' = [identifier |-> identifier, now |-> limiterClock,
                            allowed |-> r.allowed]
    /\ UNCHANGED limiterClock
    /\ UNCHANGED outsideLimiter

\* A millisecond passes.
LimiterTick ==
    /\ limiterClock < MaxTime
    /\ limiterClock' = limiterClock + 1
    /\ UNCHANGED <<requests, granted, lastAnswer>>
    /\ UNCHANGED outsideLimiter

NextLimiter ==
    \/ \E identifier \in Identifiers : IsAllowedCall(identifier)
    \/ LimiterTick

SpecLimiter == Init /\ [][NextLimiter]_vars

-----------------------------------------------------------------------------
(* State machine of the report generator: the passes produce their outputs, *)
(* or fail, and the caller hands what it has to the report generator.       *)

AnalyzerSeverities == {"Critical", "High", "Medium"}
Severities == {"Critical", "High", "Medium", "Low"}

\* A finding of the primary analyzer with the given severity.
FindingOf(sev) ==
    [type |-> IF sev = "Critical" THEN "tx.origin usage"
              ELSE IF sev = "High" THEN "Low-level call"
              ELSE "Timestamp dependency",
     severity |-> sev, line |-> NoLine]

\* The analyzed contract has one more finding of severity sev.
AnalyzerFinds(sev) ==
    /\ report = NoOutcome
    /\ analysisResults # Absent
    /\ Len(analysisResults.issues) < MaxFindings
    /\ analysisResults' =
           AnalysisResult(Append(analysisResults.issues, FindingOf(sev)))
    /\ UNCHANGED <<outsideReport, vulnerabilityResults, gasResults, report>>

\* The vulnerability check reports one more vulnerability of severity sev.
VulnerabilityFound(sev) ==
    /\ report = NoOutcome
    /\ vulnerabilityResults # Absent
    /\ Len(vulnerabilityResults.vulnerabilities) < MaxVulnerabilities
    /\ vulnerabilityResults' =
           [vulnerabilities |->
                Append(vulnerabilityResults.vulnerabilities,
                       [id |-> "VULN", name |-> "Vulnerability", severity |-> sev]),
            recommendations |->
                Append(vulnerabilityResults.recommendations, "remediate")]
    /\ UNCHANGED <<outsideReport, analysisResults, gasResults, report>>

\* The gas analysis reports one more optimization.
OptimizationFound ==
    /\ report = NoOutcome
    /\ gasResults # Absent
    /\ Len(gasResults.optimizations) < MaxOptimizations
    /\ gasResults' =
           [optimizations |->
                Append(gasResults.optimizations,
                       [type |-> "Storage", recommendation |-> "pack structs"])]
    /\ UNCHANGED <<outsideReport, analysisResults, vulnerabilityResults, report>>

\* A pass fails, or is not run: the caller has no output of it.
AnalysisPassFails ==
    /\ report = NoOutcome
    /\ analysisResults = AnalysisResult(<<>>)
    /\ analysisResults' = Absent
    /\ UNCHANGED <<outsideReport, vulnerabilityResults, gasResults, report>>

VulnerabilityPassFails ==
    /\ report = NoOutcome
    /\ vulnerabilityResults = NoVulnerabilities
    /\ vulnerabilityResults' = Absent
    /\ UNCHANGED <<outsideReport, analysisResults, gasResults, report>>

GasPassFails ==
    /\ report = NoOutcome
    /\ gasResults = NoOptimizations
    /\ gasResults' = Absent
    /\ UNCHANGED <<outsideReport, analysisResults, vulnerabilityResults, report>>

\* The caller invokes generateComprehensiveReport with what it has.
GenerateReport ==
    /\ report = NoOutcome
    /\ report' = generateComprehensiveReport("A", analysisResults,
                                             vulnerabilityResults, gasResults)
    /\ UNCHANGED <<outsideReport, analysisResults, vulnerabilityResults,
                   gasResults>>

NextReport ==
    \/ \E sev \in AnalyzerSeverities : AnalyzerFinds(sev)
    \/ \E sev \in Severities : VulnerabilityFound(sev)
    \/ OptimizationFound
    \/ AnalysisPassFails
    \/ VulnerabilityPassFails
    \/ GasPassFails
    \/ GenerateReport

SpecReport == Init /\ [][NextReport]_vars

-----------------------------------------------------------------------------
(* State machine of the formal verification tool. Each pass is an async      *)
(* function without an await in its body: it runs to its end when called.    *)

\* a + b | using SafeMath | pragma solidity ^0.8.0; | selfdestruct(
\* require(msg.sender == owner) | .call( | mapping( balances[msg.sender] = 0
VerifyLineSet ==
    { <<"ar">>, <<"sm">>, <<"p08">>, <<"sd">>, <<"rmo">>, <<"call">>,
      <<"map", "bal">> }

VerifyTexts == SeqsUpTo(VerifyLineSet, MaxVerifyLines) \ {<<>>}

CustomLists == {[k \in 1..n |-> "custom property"] : n \in 0..MaxCustom}

\* Timeouts in seconds: zero, one second, the default.
Timeouts == {0, 1, DefaultTimeout}

\* Wall-clock time a pass may take, in ms.
PassDurations == {0, PassMs}

\* performFormalVerification up to the end of extractFormalProperties.
StartVerification(lines, custom, m, t) ==
    /\ vpc = "idle"
    /\ contractCode' = lines
    /\ customProperties' = custom
    /\ method' = m
    /\ timeout' = t
    /\ vStartTime' = vClock
    /\ properties' = extractFormalProperties(lines, custom)
    /\ vpc' = "extracted"
    /\ UNCHANGED <<vClock, passes, verification>>
    /\ UNCHANGED outsideVerify

\* method === "model-checking" || method === "all"
\*     ? await performModelChecking(..) : getEmptyModelCheckerResults()
ModelCheckingPass(d) ==
    /\ vpc = "extracted"
    /\ vpc' = "model-checked"
    /\ IF method \in {"model-checking", "all"}
       THEN /\ properties' = performModelChecking(contractCode, properties)
            /\ passes' = Append(passes, "model-checking")
            /\ vClock' = vClock + d
       ELSE d = 0 /\ UNCHANGED <<properties, passes, vClock>>
    /\ UNCHANGED <<contractCode, customProperties, method, timeout, vStartTime,
                   verification>>
    /\ UNCHANGED outsideVerify

SymbolicExecutionPass(d) ==
    /\ vpc = "model-checked"
    /\ vpc' = "executed"
    /\ IF method \in {"symbolic-execution", "all"}
       THEN /\ properties' = performSymbolicExecution(contractCode, properties)
            /\ passes' = Append(passes, "symbolic-execution")
            /\ vClock' = vClock + d
       ELSE d = 0 /\ UNCHANGED <<properties, passes, vClock>>
    /\ UNCHANGED <<contractCode, customProperties, method, timeout, vStartTime,
                   verification>>
    /\ UNCHANGED outsideVerify

AbstractInterpretationPass(d) ==
    /\ vpc = "executed"
    /\ vpc' = "interpreted"
    /\ IF method \in {"abstract-interpretation", "all"}
       THEN /\ properties' = performAbstractInterpretation(contractCode, properties)
            /\ passes' = Append(passes, "abstract-interpretation")
            /\ vClock' = vClock + d
       ELSE d = 0 /\ UNCHANGED <<properties, passes, vClock>>
    /\ UNCHANGED <<contractCode, customProperties, method, timeout, vStartTime,
                   verification>>
    /\ UNCHANGED outsideVerify

\* const verificationTime = Date.now() - startTime; ...; return {...}
FinishVerification ==
    /\ vpc = "interpreted"
    /\ vpc' = "done"
    /\ verification' =
           [overallVerification |->
                determineOverallVerification(properties, vClock - vStartTime,
                                             timeout),
            verificationTime |-> vClock - vStartTime]
    /\ UNCHANGED <<contractCode, customProperties, method, timeout, properties,
                   vStartTime, vClock, passes>>
    /\ UNCHANGED outsideVerify

VerifyCall ==
    /\ vpc = "idle"
    /\ \E lines \in VerifyTexts, custom \in CustomLists, m \in Methods,
          t \in Timeouts : StartVerification(lines, custom, m, t)

NextVerify ==
    \/ VerifyCall
    \/ \E d \in PassDurations : ModelCheckingPass(d)
    \/ \E d \in PassDurations : SymbolicExecutionPass(d)
    \/ \E d \in PassDurations : AbstractInterpretationPass(d)
    \/ FinishVerification

SpecVerify == Init /\ [][NextVerify]_vars

-----------------------------------------------------------------------------
(* State machine of the advanced static analyzer: one call of the tool, on   *)
(* any text, with the taint analysis switched on or off. The tool keeps no   *)
(* state from one call to the next.                                          *)

\* function f() { | x = msg.sender; | x=1; | if (x == tx.origin) a.call(x); |
\* a.delegatecall(msg.data); | selfdestruct(x); | return x; | (empty) |
\* a.send(1);
StaticLineSet ==
    { <<"f", "u", "n", "c", "t", "i", "o", "n", " ", "f", "(", ")", " ", "{">>,
      <<"x", " ", "=", " ", "m", "s", "g", ".", "s", "e", "n", "d", "e", "r", ";">>,
      <<"x", "=", "1", ";">>,
      <<"i", "f", " ", "(", "x", " ", "=", "=", " ", "t", "x", ".", "o", "r", "i", "g", "i", "n", ")", " ", "a", ".", "c", "a", "l", "l", "(", "x", ")", ";">>,
      <<"a", ".", "d", "e", "l", "e", "g", "a", "t", "e", "c", "a", "l", "l", "(", "m", "s", "g", ".", "d", "a", "t", "a", ")", ";">>,
      <<"s", "e", "l", "f", "d", "e", "s", "t", "r", "u", "c", "t", "(", "x", ")", ";">>,
      <<"r", "e", "t", "u", "r", "n", " ", "x", ";">>,
      <<>>,
      <<"a", ".", "s", "e", "n", "d", "(", "1", ")", ";">> }

StaticTexts == SeqsUpTo(StaticLineSet, MaxStaticLines) \ {<<>>}

\* advancedStaticAnalyzer.execute -> performAdvancedStaticAnalysis
AnalyzeStatically(contractLines, taint) ==
    /\ ~staticDone
    /\ staticCode' = contractLines
    /\ enableTaintAnalysis' = taint
    /\ staticAnalysis' = performAdvancedStaticAnalysis(contractLines, taint)
    /\ staticDone' = TRUE
    /\ UNCHANGED outsideStatic

NextStatic ==
    \E contractLines \in StaticTexts, taint \in BOOLEAN :
        AnalyzeStatically(contractLines, taint)

SpecStatic == Init /\ [][NextStatic]_vars

-----------------------------------------------------------------------------
(* State machine of the anomaly detector: one call of the tool, on any text, *)
(* at any sensitivity, with either switch on or off. The tool keeps no state *)
(* from one call to the next.                                                *)

Repeat(line, n) == [k \in 1..n |-> line]

FunctionCounts == {0, ManyFunctions}
BranchCounts == {0, ManyBranches \div 2, ManyBranches}
CallCounts == {0, ManyCalls \div 2, ManyCalls}
AssignmentCounts == {0, ManyAssignments}
RequireCounts == {0, 1}
BraceCounts == {0, ManyBraces}

\* Lines that the pattern checks, the behavioural analysis and the novel
\* pattern detection react to.
SpecialLines ==
    { <<>>,
      << <<"x", " ", "=", " ", "1">> >>,
      << <<"d", "e", "a", "d", "l", "i", "n", "e", " ", "=", " ", "b", "l", "o", "c", "k", ".", "t", "i", "m", "e", "s", "t", "a", "m", "p">> >>,
      << <<"P", "r", "o", "x", "y", " ", "i", "m", "p", "l", "e", "m", "e", "n", "t", "a", "t", "i", "o", "n", " ", "u", "p", "g", "r", "a", "d", "e">>,
         <<"y", "=", "a", ".", "c", "a", "l", "l", "(", "t", "x", ".", "o", "r", "i", "g", "i", "n", ")">> >> }

\* A text is runs of `function f()`, `if (a)`, `a.call()`, `total = 1`,
\* `require(ok)` and `{` lines, then special lines; the text without any line
\* is the empty string, which splits into one empty line.
AnomalyTexts ==
    {IF ls = <<>> THEN << <<>> >> ELSE ls :
         ls \in {Repeat(<<"f", "u", "n", "c", "t", "i", "o", "n", " ", "f", "(", ")">>, nf)
                 \o Repeat(<<"i", "f", " ", "(", "a", ")">>, nb)
                 \o Repeat(<<"a", ".", "c", "a", "l", "l", "(", ")">>, nc)
                 \o Repeat(<<"t", "o", "t", "a", "l", " ", "=", " ", "1">>, na)
                 \o Repeat(<<"r", "e", "q", "u", "i", "r", "e", "(", "o", "k", ")">>, nr)
                 \o Repeat(<<"{">>, nn)
                 \o special :
                     nf \in FunctionCounts, nb \in BranchCounts, nc \in CallCounts,
                     na \in AssignmentCounts, nr \in RequireCounts,
                     nn \in BraceCounts, special \in SpecialLines}}

\* mlAnomalyDetector.execute -> detectAnomalies
DetectAnomaliesCall(lines, level, behavioral, novel) ==
    /\ ~anomalyDone
    /\ anomalyCode' = lines
    /\ sensitivityLevel' = level
    /\ enableBehavioralAnalysis' = behavioral
    /\ enableNovelPatternDetection' = novel
    /\ anomalyResult' = detectAnomalies(lines, level, behavioral, novel)
    /\ anomalyDone' = TRUE
    /\ UNCHANGED outsideAnomaly

NextAnomaly ==
    \E lines \in AnomalyTexts, level \in SensitivityLevels,
       behavioral \in BOOLEAN, novel \in BOOLEAN :
        DetectAnomaliesCall(lines, level, behavioral, novel)

SpecAnomaly == Init /\ [][NextAnomaly]_vars

-----------------------------------------------------------------------------
(* Properties *)

ToolDone == entry = "tool" /\ pc = "done"
ToolReturned == ToolDone /\ outcome.status = "returned"

Penalty(found) ==
    25 * Cardinality({k \in DOMAIN found : found[k].severity = "Critical"})
    + 15 * Cardinality({k \in DOMAIN found : found[k].severity = "High"})
    + 8 * Cardinality({k \in DOMAIN found : found[k].severity = "Medium"})
    + 3 * Cardinality({k \in DOMAIN found : found[k].severity = "Low"})

\* C1: for every accepted input the returned securityScore is
\* max(0, 100 - (25*critical + 15*high + 8*medium + 3*low)) over all the
\* findings the analysis produced, and so lies in 0..100.
C1_ScoreIsClampedPenalty ==
    ToolReturned =>
        /\ outcome.value.securityScore =
               (IF Penalty(issues) >= 100 THEN 0 ELSE 100 - Penalty(issues))
        /\ outcome.value.securityScore \in 0..100

\* An accepted text whose findings weigh more than 100: the clamp acted.
C1_Witness ==
    ToolReturned /\ Penalty(issues) > 100 /\ outcome.value.securityScore = 0

\* C2: every accepted text in which tx.origin occurs on any line yields a
\* finding of type "tx.origin usage" with severity Critical.
C2_TxOriginAlwaysReported ==
    (ToolReturned /\ Has(RawChars(code), {"txo"})) =>
        \E k \in DOMAIN outcome.value.issues :
            /\ outcome.value.issues[k].type = "tx.origin usage"
            /\ outcome.value.issues[k].severity = "Critical"

MatchingRules(line) == {r \in Rules : Has(line, securityChecks[r].pattern)}

\* C3: in the primary scan every line among the first 100 that contains a
\* catalog pattern yields exactly one finding for that line, of the type of
\* the first catalog rule occurring in it, whatever matched on earlier lines;
\* a line containing no catalog pattern yields none.
C3_OneFindingPerMatchingLine ==
    ToolReturned =>
        LET lines == Split(sanitizeContractCode(RawChars(code)))
            n == IF Len(lines) < MaxScanLines THEN Len(lines) ELSE MaxScanLines
        IN \A k \in 1..n :
               LET at == {i \in DOMAIN issues : issues[i].line = k}
               IN IF MatchingRules(lines[k]) = {} THEN at = {}
                  ELSE /\ Cardinality(at) = 1
                       /\ \A i \in at :
                              issues[i].type =
                                  securityChecks[Min(MatchingRules(lines[k]))].type

\* C4: every accepted text in which some line contains .call( and a later
\* line is `balances[msg.sender] = 0` yields a Critical finding of type
\* "Reentrancy vulnerability".
C4_ReentrancyReported ==
    (ToolReturned
     /\ \E i, j \in DOMAIN code.lines :
            i < j /\ Has(code.lines[i], {"call"}) /\ code.lines[j] = <<"bal">>)
    => \E k \in DOMAIN outcome.value.issues :
           /\ outcome.value.issues[k].type = "Reentrancy vulnerability"
           /\ outcome.value.issues[k].severity = "Critical"

\* C5: exactly one High "Integer overflow/underflow" finding when the
\* declared version is below 0.8 and the text contains an arithmetic operator
\* and no SafeMath; none when the version is 0.8 or above, when no version is
\* declared, or when SafeMath occurs.
C5_OverflowExactlyWhenUnguarded ==
    ToolReturned =>
        LET raw == RawChars(code)
            expected == IF /\ solidityVersion(raw) # NoVersion
                           /\ solidityVersion(raw) < 8
                           /\ Has(raw, ArithmeticToks)
                           /\ ~Has(raw, SafeMathToks)
                        THEN 1 ELSE 0
        IN Cardinality({k \in DOMAIN outcome.value.issues :
                            /\ outcome.value.issues[k].type
                                   = "Integer overflow/underflow"
                            /\ outcome.value.issues[k].severity = "High"})
           = expected

\* C6: whenever the pipeline started by execute runs longer than the
\* 30-second budget, execute fails with the timeout error and does not return
\* the pipeline's result.
C6_TimeoutWhenOverBudget ==
    (ToolDone /\ inputSchema(code) = NoError /\ pipelineMs > maxAnalysisTime)
    => /\ outcome.status = "thrown"
       /\ outcome.error = executeCatch(TimeoutReason)

\* C7: on every entry path that validates contract code, the empty string and
\* code of more than 50,000 characters are rejected with an input error, and
\* Solidity code of exactly 50,000 characters is accepted.
C7_SizeBoundary ==
    pc = "done" =>
        /\ (RawLen(code) = 0 \/ RawLen(code) > MaxCodeLen)
               => outcome.status = "thrown"
        /\ (RawLen(code) = MaxCodeLen /\ Has(RawChars(code), ContractToks))
               => outcome.status = "returned"

HasMarker(s) == Has(s, PragmaToks) \/ Has(s, ContractToks)

\* C8: for a non-empty input with neither a `pragma solidity` nor a
\* `contract <Name>` marker analyzeContract does not fail; it returns a result
\* carrying a contract name and a numeric securityScore.
C8_NonSolidityStillAnalyzed ==
    (ToolDone /\ inputSchema(code) = NoError
     /\ SeqLen(Trim(RawChars(code)), code.fill) > 0
     /\ ~HasMarker(RawChars(code)))
    => /\ outcome.status = "returned"
       /\ outcome.value.contractName # NoName
       /\ outcome.value.securityScore \in 0..100

\* C9: a failure caused by bad input, one caused by exceeding the time budget
\* and one caused by an unexpected exception inside a pass reach the caller as
\* three different error kinds. The kinds execute gives the latter two are
\* those of its catch block applied to the timer's rejection value and to an
\* exception thrown inside analyzeContract.
C9_ErrorKindsDistinct ==
    (ToolDone /\ outcome.status = "thrown"
     /\ (SeqLen(Trim(RawChars(code)), code.fill) = 0
         \/ ~HasMarker(sanitizeContractCode(RawChars(code)))))
    => /\ outcome.error.kind # executeCatch(TimeoutReason).kind
       /\ outcome.error.kind # executeCatch(Error("unexpected")).kind

\* C10: two calls of analyzeContract on the same text return identical
\* findings, securityScore and risk level; nothing left by the first call
\* changes the second.
C10_Deterministic ==
    \A i, j \in DOMAIN results : results[i] = results[j]

\* The second call has returned findings, on a text whose scan left a
\* non-zero lastIndex in a pattern of the first call.
C10_Witness ==
    /\ Len(results) = 2
    /\ results[2].status = "returned"
    /\ results[2].value.issues # <<>>
    /\ \E r \in Rules : lastIndex[r] > 0

\* C12: recomputing the score formula over the issues array analyzeContract
\* returns (capped at 20 entries) reproduces the securityScore of the same
\* result, also for inputs with more than 20 findings.
C12_ScoreOfReturnedIssues ==
    ToolReturned =>
        outcome.value.securityScore =
            (IF Penalty(outcome.value.issues) >= 100 THEN 0
             ELSE 100 - Penalty(outcome.value.issues))

\* A result whose issues array was cut to 20 entries.
C12_Witness ==
    /\ ToolReturned
    /\ Len(issues) > MaxIssues
    /\ Len(outcome.value.issues) = MaxIssues
    /\ outcome.value.issues # issues

\* C13: every finding that carries a line number has
\* 1 <= line <= min(100, number of lines of the text); lines beyond the
\* first 100 produce no line-bearing finding.
C13_LineWithinScannedLines ==
    ToolReturned =>
        \A k \in DOMAIN issues :
            issues[k].line # NoLine =>
                /\ 1 <= issues[k].line
                /\ issues[k].line <= MaxScanLines
                /\ issues[k].line <= Len(code.lines)
                /\ issues[k].line <= Len(Split(sanitizeContractCode(RawChars(code))))

\* A text of more than 100 lines with a catalog pattern on a line past the
\* hundredth, and a finding on line 100.
C13_Witness ==
    /\ ToolReturned
    /\ Len(code.lines) > MaxScanLines
    /\ MatchingRules(code.lines[Len(code.lines)]) # {}
    /\ \E k \in DOMAIN issues : issues[k].line = MaxScanLines

\* The lines of the text as the caller supplied it: contractCode.split("\n").
SuppliedLines == code.lines

\* C21: the totalLines returned by analyzeContract equals the number of
\* newline-separated lines of the contract code the caller supplied, also
\* when the code starts or ends with blank lines or holds markup that the
\* sanitization removes.
C21_TotalLinesOfSuppliedCode ==
    ToolReturned => outcome.value.totalLines = Len(SuppliedLines)

\* The lines checkReentrancyPattern is given.
SanitizedLines == Split(sanitizeContractCode(RawChars(code)))

HasReentrancyFinding ==
    \E k \in DOMAIN outcome.value.issues :
        outcome.value.issues[k].type = "Reentrancy vulnerability"

\* C22: the reentrancy finding is emitted only if a line that assigns
\* without require/assert occurs strictly later than a line holding an
\* external-call pattern; a text whose only "=" after the first external
\* call sits on the external-call line itself produces no such finding.
C22_ReentrancyNeedsLaterAssignment ==
    (ToolReturned /\ HasReentrancyFinding)
        => \E j \in DOMAIN SanitizedLines :
               /\ Has(SanitizedLines[j], ExternalCallToks)
               /\ \E k \in (j + 1)..Len(SanitizedLines) :
                      /\ Has(SanitizedLines[k], AssignToks)
                      /\ ~Has(SanitizedLines[k], GuardToks)

\* The version the first pragma of the supplied text declares, times ten.
DeclaredVersion == solidityVersion(RawChars(code))

HasOutdatedFinding ==
    \E k \in DOMAIN outcome.value.issues :
        outcome.value.issues[k].type = "Outdated Solidity version"

\* C30: a contract whose pragma declares Solidity 0.8.x (or any version from
\* 0.5 upward) never receives the "Outdated Solidity version" finding from
\* the primary scan; the finding is emitted only for versions older than 0.5.
C30_NoOutdatedFindingFrom05 ==
    (ToolReturned /\ HasOutdatedFinding)
        => (DeclaredVersion # NoVersion /\ DeclaredVersion < 5)

-----------------------------------------------------------------------------
(* Properties of the advanced static analyzer *)

StructuralMarks ==
    FunctionMarks \cup ConditionMarks \cup LoopMarks \cup CallMarks \cup ReturnMarks

\* C23: buildControlFlowGraph returns a list of nodes with strictly
\* increasing line numbers and distinct ids, in which node i has the single
\* child node i+1 and node i+1 the single parent node i, the first node has
\* no parent and the last no child; an empty input, or one with no
\* structural line, yields the empty list.
C23_ControlFlowGraphIsChain ==
    staticDone =>
        LET nodes == staticAnalysis.controlFlowGraph
        IN /\ \A i, j \in DOMAIN nodes :
                  i < j => (nodes[i].line < nodes[j].line /\ nodes[i].id # nodes[j].id)
           /\ \A i \in DOMAIN nodes :
                  /\ nodes[i].children =
                         IF i < Len(nodes) THEN <<nodes[i + 1].id>> ELSE <<>>
                  /\ nodes[i].parents =
                         IF i > 1 THEN <<nodes[i - 1].id>> ELSE <<>>
           /\ (\A k \in DOMAIN staticCode : ~includesAny(staticCode[k], StructuralMarks))
                  => nodes = <<>>

\* A text with several structural lines, one of them holding two kinds of
\* mark, has been analyzed.
C23_Witness ==
    /\ staticDone
    /\ Len(staticAnalysis.controlFlowGraph) >= 3
    /\ \E k \in DOMAIN staticCode :
           includesAny(staticCode[k], ConditionMarks) /\ includesAny(staticCode[k], CallMarks)

Elements(q) == {q[k] : k \in DOMAIN q}

\* C24: for every variable tracked by performDataFlowAnalysis the definition
\* lines and the use lines are disjoint: a line recorded as a definition of
\* the variable (spelled `v =` or `v=`) is never also recorded as a use, and
\* every other line in which the name occurs is recorded as a use.
C24_DefinitionsAndUsesDisjoint ==
    staticDone =>
        \A k \in DOMAIN staticAnalysis.dataFlowAnalysis :
            LET df == staticAnalysis.dataFlowAnalysis[k]
                occurs == {i \in DOMAIN staticCode : includes(staticCode[i], df.variable)}
            IN /\ Elements(df.definitions) \cap Elements(df.uses) = {}
               /\ Elements(df.uses) = occurs \ Elements(df.definitions)

\* The 1-based numbers of the lines that hold the string.
LinesWith(part) == {i \in DOMAIN staticCode : includes(staticCode[i], part)}

\* Both strings occur and the first line of the source is strictly before
\* the first line of the sink.
SourceFirst(source, sink) ==
    /\ LinesWith(source) # {}
    /\ LinesWith(sink) # {}
    /\ Min(LinesWith(source)) < Min(LinesWith(sink))

\* Severity by sink: .delegatecall( and selfdestruct( Critical, .call( High,
\* .send(, .transfer( and suicide( Medium.
SinkSeverity ==
    <<"High", "Critical", "Medium", "Medium", "Critical", "Medium">>

\* C25: performTaintAnalysis emits exactly one vulnerable path for each
\* (source, sink) pair of its lists such that both occur and the first line
\* holding the source is strictly before the first line holding the sink,
\* and none for any other pair; the path's severity depends on the sink
\* alone, and its source and sink are in the reported sources and sinks.
C25_OnePathPerOrderedPair ==
    (staticDone /\ enableTaintAnalysis) =>
        LET t == staticAnalysis.taintAnalysis
            paths == t.vulnerablePaths
        IN /\ \A si \in DOMAIN sources, ki \in DOMAIN sinks :
                  Cardinality({k \in DOMAIN paths :
                                   /\ paths[k].source = sources[si]
                                   /\ paths[k].sink = sinks[ki]})
                      = IF SourceFirst(sources[si], sinks[ki]) THEN 1 ELSE 0
           /\ \A k \in DOMAIN paths :
                  /\ \E ki \in DOMAIN sinks :
                         /\ paths[k].sink = sinks[ki]
                         /\ paths[k].severity = SinkSeverity[ki]
                  /\ paths[k].source \in Elements(t.sources)
                  /\ paths[k].sink \in Elements(t.sinks)

\* Some path is emitted, and some source first occurs on the line where some
\* sink first occurs.
C25_Witness ==
    /\ staticDone /\ enableTaintAnalysis
    /\ staticAnalysis.taintAnalysis.vulnerablePaths # <<>>
    /\ \E si \in DOMAIN sources, ki \in DOMAIN sinks :
           /\ LinesWith(sources[si]) # {} /\ LinesWith(sinks[ki]) # {}
           /\ Min(LinesWith(sources[si])) = Min(LinesWith(sinks[ki]))

-----------------------------------------------------------------------------
(* Properties of the anomaly detector *)

\* What the call would have returned with the two switches set otherwise.
WithSwitches(behavioral, novel) ==
    detectAnomalies(anomalyCode, sensitivityLevel, behavioral, novel)

\* C26: the overallAnomalyScore and the anomaly records returned by
\* detectAnomalies depend on the contract text and the sensitivity level
\* only: switching novel-pattern detection or behavioural analysis on or off
\* changes neither, and the score lies in 0..100.
C26_SwitchesLeaveScoreAndAnomalies ==
    anomalyDone =>
        /\ LET other == WithSwitches(~enableBehavioralAnalysis,
                                     enableNovelPatternDetection)
           IN /\ other.anomalies = anomalyResult.anomalies
              /\ other.overallAnomalyScore = anomalyResult.overallAnomalyScore
        /\ LET other == WithSwitches(enableBehavioralAnalysis,
                                     ~enableNovelPatternDetection)
           IN /\ other.anomalies = anomalyResult.anomalies
              /\ other.overallAnomalyScore = anomalyResult.overallAnomalyScore
        /\ anomalyResult.overallAnomalyScore \in 0..(100 * ScoreScale)

\* A call with both switches on that found a novel pattern, a suspicious
\* pattern and some anomaly.
C26_Witness ==
    /\ anomalyDone
    /\ enableBehavioralAnalysis /\ enableNovelPatternDetection
    /\ anomalyResult.novelPatterns # <<>>
    /\ anomalyResult.behavioralAnalysis.suspiciousPatterns # <<>>
    /\ anomalyResult.anomalies # <<>>
    /\ anomalyResult.overallAnomalyScore > 0

ThresholdTypes ==
    {"High Complexity Anomaly", "Excessive External Calls",
     "Insufficient Access Control", "Excessive State Modifications",
     "Deep Nesting Anomaly"}

SensitivityRank == [low |-> 1, medium |-> 2, high |-> 3]

ReportedThresholdTypes(result) ==
    {result.anomalies[k].type : k \in DOMAIN result.anomalies} \cap ThresholdTypes

\* C27: raising the sensitivity level never removes a threshold anomaly:
\* each threshold-based anomaly type reported for a text at a lower
\* sensitivity is also reported at every higher sensitivity.
C27_SensitivityIsMonotone ==
    anomalyDone =>
        \A lower \in SensitivityLevels :
            SensitivityRank[lower] < SensitivityRank[sensitivityLevel]
                => ReportedThresholdTypes(
                       detectAnomalies(anomalyCode, lower, enableBehavioralAnalysis,
                                       enableNovelPatternDetection))
                   \subseteq ReportedThresholdTypes(anomalyResult)

-----------------------------------------------------------------------------
(* Properties of the aggregation *)

Rank == [Low |-> 1, Medium |-> 2, High |-> 3, Critical |-> 4]

InputsPresent == analysisResults # Absent /\ vulnerabilityResults # Absent

\* The risk level the report generator derives from its inputs.
DerivedRisk(a, v) == riskLevel(findingCounts(allFindings(a, v)))

\* This step adds one Critical finding to the analyzer's findings.
AddsCriticalIssue ==
    /\ analysisResults # Absent /\ analysisResults' # Absent
    /\ Len(analysisResults'.issues) = Len(analysisResults.issues) + 1
    /\ analysisResults'.issues[Len(analysisResults'.issues)].severity = "Critical"

\* This step adds one Critical vulnerability to the vulnerability results.
AddsCriticalVulnerability ==
    /\ vulnerabilityResults # Absent /\ vulnerabilityResults' # Absent
    /\ Len(vulnerabilityResults'.vulnerabilities)
           = Len(vulnerabilityResults.vulnerabilities) + 1
    /\ vulnerabilityResults'.vulnerabilities[
            Len(vulnerabilityResults'.vulnerabilities)].severity = "Critical"

\* C11: adding one more Critical finding to a set of findings never
\* increases the securityScore computed from the set and never lowers the
\* rank (Low < Medium < High < Critical) of the risk level derived from it,
\* in the analyzer's summary and in the report generator alike.
C11_CriticalFindingIsMonotone ==
    [][ /\ AddsCriticalIssue =>
            /\ analysisResults'.securityScore <= analysisResults.securityScore
            /\ Rank[analysisResults'.summary.riskLevel]
                   >= Rank[analysisResults.summary.riskLevel]
        /\ ((AddsCriticalIssue \/ AddsCriticalVulnerability) /\ InputsPresent) =>
            Rank[DerivedRisk(analysisResults', vulnerabilityResults')]
                >= Rank[DerivedRisk(analysisResults, vulnerabilityResults)] ]_vars

\* A Critical finding was added to three findings that held a Critical
\* already: the score went down and both risk levels are Critical.
C11_Witness ==
    /\ InputsPresent
    /\ Len(analysisResults.issues) = 4
    /\ analysisResults.issues[1].severity = "Critical"
    /\ analysisResults.issues[4].severity = "Critical"
    /\ analysisResults.securityScore
           < securityScore(SubSeq(analysisResults.issues, 1, 3))
    /\ analysisResults.summary.riskLevel = "Critical"
    /\ DerivedRisk(analysisResults, vulnerabilityResults) = "Critical"

\* C14: the securityScore of the report equals
\* max(0, 100 - (25*critical + 15*high + 8*medium + 3*low)) with the counts
\* taken over all findings supplied, analysisResults.issues together with
\* vulnerabilityResults.vulnerabilities: the counts the report gives in findings.
C14_ReportScoreOverAllFindings ==
    report.status = "returned" =>
        LET f == report.value.findings
            penalty == 25 * f.critical + 15 * f.high + 8 * f.medium + 3 * f.low
        IN /\ f = findingCounts(allFindings(analysisResults, vulnerabilityResults))
           /\ report.value.securityScore =
                  (IF penalty >= 100 THEN 0 ELSE 100 - penalty)

\* The level the risk rule gives for the counts f.
RiskRule(f) ==
    IF f.critical > 0 THEN "Critical"
    ELSE IF f.high > 0 THEN "High"
    ELSE IF f.medium > 2 THEN "Medium"
    ELSE "Low"

\* C15: the report's riskLevel and the risk level of the analyzer's summary
\* are both Critical if the findings they are derived from hold a Critical
\* finding, else High if a High one, else Medium if more than 2 Medium ones,
\* else Low; so both give the same level for the same findings.
C15_RiskRuleEverywhere ==
    /\ report.status = "returned" =>
            report.value.riskLevel = RiskRule(report.value.findings)
    /\ analysisResults # Absent =>
            analysisResults.summary.riskLevel
                = RiskRule(findingCounts(analysisResults.issues))

\* C16: given the outputs of only some of the passes, the report generator
\* still returns a report and propagates no exception.
C16_PartialReportRendered ==
    (report # NoOutcome
     /\ (analysisResults = Absent \/ vulnerabilityResults = Absent
         \/ gasResults = Absent))
    => report.status = "returned"

-----------------------------------------------------------------------------
(* Properties of the formal verification *)

VerificationDone == vpc = "done"

VerifiedCount == Cardinality({k \in DOMAIN properties : properties[k].verified})

\* C17: overallVerification is TIMEOUT whenever the elapsed verification
\* time exceeds the caller's timeout, whatever the verdicts; otherwise it is
\* VERIFIED exactly when every property is verified, FAILED exactly when
\* none is, and PARTIAL in all remaining cases.
C17_OverallVerification ==
    VerificationDone =>
        IF verification.verificationTime > timeout * 1000
        THEN verification.overallVerification = "TIMEOUT"
        ELSE verification.overallVerification =
                 (IF VerifiedCount = Len(properties) THEN "VERIFIED"
                  ELSE IF VerifiedCount = 0 THEN "FAILED"
                  ELSE "PARTIAL")

\* The property with the given id in the shared list.
PropertyOf(id) ==
    properties[CHOOSE k \in DOMAIN properties : properties[k].id = id]

\* C18: with method "all" the passes run in the order model-checking,
\* symbolic-execution, abstract-interpretation on one shared property list,
\* and the verified and confidence values of the final result are those of
\* the last pass that wrote the property: for SAFETY_001 and SAFETY_003,
\* written by model checking and by symbolic execution, the
\* symbolic-execution verdict.
C18_LastWriteWins ==
    (VerificationDone /\ method = "all") =>
        /\ passes = <<"model-checking", "symbolic-execution",
                      "abstract-interpretation">>
        /\ PropertyOf("SAFETY_001").verified = (overflowChecks(contractCode) = {})
        /\ PropertyOf("SAFETY_001").confidence =
               (IF overflowChecks(contractCode) = {} THEN 90 ELSE 10)
        /\ PropertyOf("SAFETY_003").verified
               = (accessControlViolations(contractCode) = {})
        /\ PropertyOf("SAFETY_003").confidence =
               (IF accessControlViolations(contractCode) = {} THEN 85 ELSE 20)
        /\ PropertyOf("SAFETY_002").verified =
               ("Potential reentrancy vulnerability detected"
                    \notin safetyViolations(contractCode))
        /\ \A k \in DOMAIN properties :
               properties[k].id = "INV_001" =>
                   properties[k].verified /\ properties[k].confidence = 80

\* Model checking verified SAFETY_001 (SafeMath occurs in the text) and
\* symbolic execution then refuted it (an operator on a line without
\* SafeMath): the final verdict is the second one.
C18_Witness ==
    /\ VerificationDone /\ method = "all"
    /\ "Potential integer overflow in arithmetic operations"
           \notin safetyViolations(contractCode)
    /\ overflowChecks(contractCode) # {}
    /\ ~PropertyOf("SAFETY_001").verified
    /\ PropertyOf("SAFETY_001").confidence = 10

\* The model-checking pass has just run.
ModelChecked == vpc = "model-checked" /\ method \in {"model-checking", "all"}

\* C28: after the model-checking pass, "Access Control Integrity"
\* (SAFETY_003) is marked verified only if that pass recorded no
\* access-control safety violation: whenever it reports "Privileged
\* functions without proper access control", it leaves SAFETY_003 unverified.
C28_AccessControlVerdictFollowsViolation ==
    (ModelChecked /\ PropertyOf("SAFETY_003").verified)
        => "Privileged functions without proper access control"
               \notin safetyViolations(contractCode)

\* C29: in the result of performFormalVerification, for every method and
\* every text, no property is both verified and carrying a counterexample:
\* a counterexample written by an earlier pass never survives on a property
\* that a later pass marks verified.
C29_NoVerifiedPropertyWithCounterexample ==
    VerificationDone =>
        \A k \in DOMAIN properties :
            ~(properties[k].verified
              /\ properties[k].counterexample # NoCounterexample)

\* All three passes ran; model checking wrote a counterexample to SAFETY_001
\* and to SAFETY_002, symbolic execution wrote SAFETY_001 again, and some
\* other property ended verified.
C29_Witness ==
    /\ VerificationDone /\ method = "all"
    /\ "Potential integer overflow in arithmetic operations"
           \in safetyViolations(contractCode)
    /\ PropertyOf("SAFETY_001").counterexample # NoCounterexample
    /\ PropertyOf("SAFETY_002").counterexample # NoCounterexample
    /\ PropertyOf("SAFETY_003").verified

-----------------------------------------------------------------------------
(* Properties of concurrent calls *)

\* What execute gives for the text when it is the only call ever made.
AloneOutcome(text) ==
    LET a == analyzeContract(text, NoName, [r \in Rules |-> 0])
    IN IF a.state = "fulfilled" THEN Returned(a.value)
       ELSE Thrown(executeCatch(a.value))

\* C19: for any interleaving of two calls on texts S1 and S2, each call
\* gives exactly the result it gives when run alone: no catalog state
\* written during one analysis (a pattern's match position included) is
\* read by the other.
C19_ConcurrentCallsIndependent ==
    \A c \in Slots :
        inflight[c].pc = "done" =>
            inflight[c].outcome = AloneOutcome(inflight[c].text)

\* Both calls are done, the second was made while the first was at its
\* await, the patterns of an analysis were left with a match position, and
\* the second call returned findings.
C19_Witness ==
    /\ \A c \in Slots : inflight[c].pc = "done"
    /\ inflight["second"].startedWhile = {"awaiting"}
    /\ \E r \in Rules : lastIndex[r] > 0
    /\ inflight["second"].outcome.status = "returned"
    /\ inflight["second"].outcome.value.issues # <<>>

-----------------------------------------------------------------------------
(* Properties of the rate limiter *)

\* The number of calls for the identifier that returned true at a time in a..b.
GrantedIn(identifier, a, b) ==
    Cardinality({k \in DOMAIN granted[identifier] :
                     a <= granted[identifier][k] /\ granted[identifier][k] <= b})

\* C20: with a non-decreasing clock, for every identifier the calls that
\* returned true at times inside any interval shorter than windowMs number
\* at most maxRequests; a call is refused only when maxRequests calls were
\* granted to the identifier inside the window ending with it, so the
\* first maxRequests calls inside a window return true and the next one
\* returns false.
C20_AtMostMaxRequestsPerWindow ==
    /\ \A identifier \in Identifiers :
           \A a \in 0..MaxTime : \A b \in a..MaxTime :
               b - a < windowMs => GrantedIn(identifier, a, b) <= maxRequests
    /\ lastAnswer # NoAnswer =>
           LET inWindow == GrantedIn(lastAnswer.identifier,
                                     lastAnswer.now - windowMs + 1, lastAnswer.now)
           IN IF lastAnswer.allowed THEN inWindow <= maxRequests
              ELSE inWindow = maxRequests

\* A call was refused after maxRequests calls of the identifier were
\* granted, and a later window of the same identifier has grants again.
C20_Witness ==
    /\ lastAnswer # NoAnswer /\ ~lastAnswer.allowed
    /\ Len(granted[lastAnswer.identifier]) > maxRequests
    /\ GrantedIn(lastAnswer.identifier, lastAnswer.now - windowMs + 1,
                 lastAnswer.now) = maxRequests

====
